---- MODULE Spec2Model ----
(***************************************************************************)
(* A model of the hyasynth engine core: the polyphonic voice allocator,    *)
(* the runtime graph's per-voice finish vote, the musical-time scheduler   *)
(* with its execution plans, and the double-buffered plan handoff.         *)
(*                                                                         *)
(* Voice ids, slot indices and graph indices are 0-based as in the source; *)
(* Vec<T> values indexed by such ids are functions on 0..n-1, Vec<T>       *)
(* values that are only pushed to and iterated are sequences.              *)
(***************************************************************************)
EXTENDS Integers, Sequences, FiniteSets, TLC

VARIABLES
    \* ---- Engine side: VoiceAllocator and Graph ----
    max_voices,            \* size of the pool given to VoiceAllocator::new
    voices,                \* VoiceAllocator.voices : 0..max_voices-1 -> Voice
    last_op,               \* the last call made: its arguments and result
    note_on_order,         \* slots in the order of their most recent note_on
    nodes,                 \* Graph.nodes : 0..n-1 -> [per_voice, inputs, silent]
    eval_order,            \* Graph.eval_order
    voices_to_deactivate,  \* Graph.voices_to_deactivate
    verdicts,              \* what each node returned in the last Graph.process
    sample_pos,            \* Engine.sample_pos
    applied,               \* the apply_event calls of the last process_plan
    \* ---- Scheduler side and the handoff ----
    musical_transport,     \* Scheduler.musical_transport
    plans,                 \* PlanHandoff.plans : 0..1 -> ExecutionPlan
    read_index,            \* PlanHandoff.read_index
    last_call,             \* the arguments of the last compile_block and the
                           \* transport it started from
    n_published,           \* number of publishes so far
    published,             \* the plan of the last publish
    observed,              \* the plan the last read_plan returned
    observed_at,           \* the value of n_published at that read_plan
    \* ---- Scheduler thread and audio thread side by side ----
    w_pc,                  \* where the Scheduler is in compile_block
    w_write,               \* compile_block: the index write_plan computed
    w_next,                \* compile_block: the plan it is writing out
    r_pc,                  \* where the audio thread is in its callback
    r_index,               \* read_plan: the index it loaded
    r_seen,                \* the fields the audio thread has read so far
    whole_plans,           \* every plan that was ever visible as a whole
    \* ---- Engine: node instances, id map, transport flags ----
    node_state,            \* the DSP state of each node's instances
    id_to_index,           \* Graph.id_to_index of the installed graph
    playing,               \* Engine.playing
    engine_bpm,            \* Engine.bpm
    finished,              \* voice ids the graph recorded as finished during
                           \* the last process_plan
    quiet,                 \* from now on every per-voice node returns silent
                           \* and no note is started
    \* ---- Bridge: the command channel and process_commands ----
    command_queue,         \* commands sent and not yet received
    sent_log,              \* every command sent, in the order of the sends
    applied_log,           \* every command process_command was called with
    a_pc,                  \* where the audio thread is in process_commands
    needs_recompile,       \* process_commands: its local flag
    pc_called_at,          \* number of commands sent when the call started
    pc_drained,            \* the commands of this call and what each returned
    pc_returned,           \* what the last finished call returned, if any
    \* ---- Recompiling: compile, prepare, swap_graph ----
    last_compile,          \* the last compile call: its GraphDef and result
    installed_def,         \* the GraphDef the installed graph was compiled from
    ever_installed,        \* the NodeIds of every graph installed so far
    last_block,            \* the plan and returns of the last process_plan
    \* ---- SessionHandle: the editor's Session and send ----
    session,               \* SessionHandle.session
    s_pc,                  \* where the editor thread is in send
    s_cmd,                 \* send: the command it was called with
    issued,                \* the NodeIds add_node has returned, in order
    \* ---- ClipPlayback: clips playing on tracks ----
    arrangement,           \* the Arrangement handed to ClipPlayback
    clip_playback,         \* ClipPlayback: playing, active_notes, event_buffer
    cp_window,             \* beats in one block window
    cp_beat,               \* the beat the next window starts at
    sounding               \* per node and note: NoteOnTarget less NoteOffTarget so far

evars == <<max_voices, voices, last_op, note_on_order,
           nodes, eval_order, voices_to_deactivate, verdicts>>

svars == <<sample_pos, applied, musical_transport, plans, read_index,
           last_call, n_published, published, observed, observed_at>>

hvars == <<w_pc, w_write, w_next, r_pc, r_index, r_seen, whole_plans>>

gvars == <<node_state, id_to_index>>

fvars == <<playing, engine_bpm>>

lvars == <<finished, quiet>>

bvars == <<command_queue, sent_log, applied_log, a_pc, needs_recompile,
           pc_called_at, pc_drained, pc_returned>>

ivars == <<last_compile, installed_def, ever_installed, last_block>>

dvars == <<session, s_pc, s_cmd, issued>>

pvars == <<arrangement, clip_playback, cp_window, cp_beat, sounding>>

cvars == <<gvars, fvars, lvars, bvars, ivars, dvars, pvars>>

vars == <<evars, svars, hvars, cvars>>

\* ------------------------------------------------------------------------
\* Bounds
\* ------------------------------------------------------------------------
MaxVoices == 2
MaxNodes == 3
MaxEvents == 2
MaxFrames == 2
MaxBlocks == 2
MaxSent == 2
MaxConns == 2
MaxEdits == 3
MaxBeat == 3
MaxWindow == 2
MaxClipLen == 2

Notes == {60, 62}
Velocities == {1}

\* The target nodes and notes of the clips: a key is <<node_id, note>>.
NoteKeys == {0, 1} \X {60, 62}

\* Option::None of an Option<VoiceId>: no voice id is negative.
None == -1

\* ------------------------------------------------------------------------
\* voice.rs
\* ------------------------------------------------------------------------
Voice_new(id) ==
    [id |-> id, active |-> FALSE, note |-> 0, velocity |-> 0,
     gate |-> FALSE, trigger |-> FALSE, release |-> FALSE]

Voice_clear_triggers(v) ==
    [v EXCEPT !.trigger = FALSE, !.release = FALSE]

\* note_on that leaves the release flag as it was.
Voice_note_on_keeps_release(v, note, velocity) ==
    [v EXCEPT !.active = TRUE, !.note = note, !.velocity = velocity,
              !.gate = TRUE, !.trigger = TRUE]

Voice_note_on(v, note, velocity) ==
    [v EXCEPT !.active = TRUE, !.note = note, !.velocity = velocity,
              !.gate = TRUE, !.trigger = TRUE, !.release = FALSE]

Voice_note_off(v) ==
    [v EXCEPT !.gate = FALSE, !.release = TRUE]

Voice_deactivate(v) ==
    [v EXCEPT !.active = FALSE, !.gate = FALSE,
              !.trigger = FALSE, !.release = FALSE]

\* ------------------------------------------------------------------------
\* voice_allocator.rs
\* ------------------------------------------------------------------------
Min(S) == CHOOSE x \in S : \A y \in S : x <= y

VoiceAllocator_new_ids_from_one(n) == [i \in 0..(n - 1) |-> Voice_new(i + 1)]

VoiceAllocator_new(n) == [i \in 0..(n - 1) |-> Voice_new(i)]

\* The slot note_on takes: the first inactive one, else the first slot,
\* else (an empty pool) none.
InactiveSlots(vs) == {i \in DOMAIN vs : ~vs[i].active}

NoteOnSlot(vs) ==
    IF InactiveSlots(vs) # {} THEN Min(InactiveSlots(vs))
    ELSE IF DOMAIN vs # {} THEN Min(DOMAIN vs)
    ELSE None

VoiceAllocator_note_on(vs, note, velocity) ==
    LET s == NoteOnSlot(vs) IN
    IF s = None THEN vs
    ELSE [vs EXCEPT ![s] = Voice_note_on(vs[s], note, velocity)]

\* The Option<VoiceId> that note_on returns: the id field of the slot taken.
VoiceAllocator_note_on_ret(vs) ==
    LET s == NoteOnSlot(vs) IN
    IF s = None THEN None ELSE vs[s].id

\* The slot note_off releases: the first active, gated slot holding the note.
HoldingSlots(vs, note) ==
    {i \in DOMAIN vs : vs[i].active /\ vs[i].gate /\ vs[i].note = note}

VoiceAllocator_note_off_all_holders(vs, note) ==
    [i \in DOMAIN vs |->
        IF i \in HoldingSlots(vs, note) THEN Voice_note_off(vs[i]) ELSE vs[i]]

VoiceAllocator_note_off(vs, note) ==
    IF HoldingSlots(vs, note) = {} THEN vs
    ELSE LET s == Min(HoldingSlots(vs, note)) IN
         [vs EXCEPT ![s] = Voice_note_off(vs[s])]

VoiceAllocator_deactivate(vs, voice_id) ==
    IF voice_id \in DOMAIN vs
    THEN [vs EXCEPT ![voice_id] = Voice_deactivate(vs[voice_id])]
    ELSE vs

\* clear_triggers that clears the trigger flags only.
VoiceAllocator_clear_triggers_keeps_release(vs) ==
    [i \in DOMAIN vs |-> [vs[i] EXCEPT !.trigger = FALSE]]

VoiceAllocator_clear_triggers(vs) ==
    [i \in DOMAIN vs |-> Voice_clear_triggers(vs[i])]

\* active_voices(): the ids of the active slots, in slot order.
RECURSIVE ActiveFrom(_, _)
ActiveFrom(vs, i) ==
    IF i \notin DOMAIN vs THEN <<>>
    ELSE (IF vs[i].active THEN <<vs[i].id>> ELSE <<>>) \o ActiveFrom(vs, i + 1)

VoiceAllocator_active_voices(vs) == ActiveFrom(vs, 0)

VoiceAllocator_active_count(vs) == Cardinality({i \in DOMAIN vs : vs[i].active})

\* ------------------------------------------------------------------------
\* graph.rs
\* ------------------------------------------------------------------------
Range(s) == {s[i] : i \in DOMAIN s}

RECURSIVE SelectSeqBy(_, _)
\* The elements of the sequence s that lie in the set S, in order.
SelectSeqBy(s, S) ==
    IF s = <<>> THEN <<>>
    ELSE (IF Head(s) \in S THEN <<Head(s)>> ELSE <<>>) \o SelectSeqBy(Tail(s), S)

RECURSIVE Ascending(_)
\* The elements of a finite set of integers as an ascending sequence.
Ascending(S) ==
    IF S = {} THEN <<>> ELSE <<Min(S)>> \o Ascending(S \ {Min(S)})

\* out_edges[input]: the nodes that list `input` among their inputs, in the
\* order the enumeration of nodes pushes them (once per occurrence).
RECURSIVE OutEdges(_, _, _)
OutEdges(ns, input, idx) ==
    IF idx \notin DOMAIN ns THEN <<>>
    ELSE [k \in 1..Cardinality({j \in DOMAIN ns[idx].inputs :
                                   ns[idx].inputs[j] = input}) |-> idx]
            \o OutEdges(ns, input, idx + 1)

RECURSIVE TopoLoop(_, _, _, _)
\* The while-let loop of Kahn's algorithm: queue is used as a stack.
TopoLoop(ns, queue, processed, result) ==
    IF queue = <<>> THEN [processed |-> processed, result |-> result]
    ELSE LET idx  == queue[Len(queue)]
             rest == SubSeq(queue, 1, Len(queue) - 1)
         IN  IF idx \in processed THEN TopoLoop(ns, rest, processed, result)
             ELSE LET done  == processed \cup {idx}
                      ready == {d \in DOMAIN ns :
                                   /\ Range(ns[d].inputs) \subseteq done
                                   /\ d \notin done}
                  IN TopoLoop(ns, rest \o SelectSeqBy(OutEdges(ns, idx, 0), ready),
                              done, Append(result, idx))

Graph_topological_sort_by_index(ns) == Ascending(DOMAIN ns)

\* has_cycle in topological_sort: the loop has left a node unprocessed.
Graph_has_cycle(ns) ==
    /\ DOMAIN ns # {}
    /\ TopoLoop(ns, Ascending({i \in DOMAIN ns : Len(ns[i].inputs) = 0}), {}, <<>>).processed
          # DOMAIN ns

Graph_topological_sort(ns) ==
    IF DOMAIN ns = {} THEN <<>>
    ELSE LET sources == {i \in DOMAIN ns : Len(ns[i].inputs) = 0}
             r == TopoLoop(ns, Ascending(sources), {}, <<>>)
         IN  r.result \o Ascending(DOMAIN ns \ r.processed)

\* Vec::swap_remove(pos): the last element takes the place of the removed one.
SwapRemove(s, pos) ==
    [i \in 1..(Len(s) - 1) |-> IF i = pos THEN s[Len(s)] ELSE s[i]]

\* The lifecycle vote of one per-voice node for one voice.
Vote(vtd, voice_id, silent) ==
    IF silent
    THEN IF voice_id \in Range(vtd) THEN vtd ELSE Append(vtd, voice_id)
    ELSE IF voice_id \in Range(vtd)
         THEN SwapRemove(vtd, Min({p \in DOMAIN vtd : vtd[p] = voice_id}))
         ELSE vtd

RECURSIVE VoteAll(_, _, _)
\* The votes of one per-voice node over the active voices, in slot order;
\* ret[v] is what the node's instance for voice v returned.
VoteAll(vtd, active, ret) ==
    IF active = <<>> THEN vtd
    ELSE VoteAll(Vote(vtd, Head(active), ret[Head(active)]), Tail(active), ret)

\* The state of a graph during process: the nodes (their silent flags
\* change), the list of voices to deactivate, and what the nodes returned.
Graph_process_per_voice_node(g, idx, vs, ret) ==
    LET active == VoiceAllocator_active_voices(vs)
        all_silent == \A k \in DOMAIN active : ret[idx][active[k]]
    IN  [nodes |-> [g.nodes EXCEPT ![idx].silent = all_silent],
         vtd   |-> VoteAll(g.vtd, active, ret[idx]),
         calls |-> [g.calls EXCEPT ![idx] =
                        [v \in Range(active) |-> ret[idx][v]]]]

Graph_process_global_node(g, idx, inputs_silent, ret) ==
    IF inputs_silent /\ Len(g.nodes[idx].inputs) > 0
    THEN [g EXCEPT !.nodes[idx].silent = TRUE]
    ELSE [g EXCEPT !.nodes[idx].silent = ret[idx][-1],
                   !.calls[idx] = [v \in {-1} |-> ret[idx][-1]]]

Graph_process_node(g, idx, vs, ret) ==
    LET inputs_silent ==
            \A k \in DOMAIN g.nodes[idx].inputs :
                g.nodes[g.nodes[idx].inputs[k]].silent
    IN  IF g.nodes[idx].per_voice
        THEN Graph_process_per_voice_node(g, idx, vs, ret)
        ELSE Graph_process_global_node(g, idx, inputs_silent, ret)

RECURSIVE ProcessOrder(_, _, _, _)
ProcessOrder(g, order, vs, ret) ==
    IF order = <<>> THEN g
    ELSE ProcessOrder(Graph_process_node(g, Head(order), vs, ret),
                      Tail(order), vs, ret)

NoCalls(ns) == [i \in DOMAIN ns |-> <<>>]

\* Graph::process: clears the list, then runs the nodes in evaluation order.
Graph_process(ns, order, vs, ret) ==
    ProcessOrder([nodes |-> ns, vtd |-> <<>>, calls |-> NoCalls(ns)],
                 order, vs, ret)

\* ---- node instances and the calls that reach them by NodeId ---------------
\* A node instance is known by the parameters set on it, the audio regions
\* started on it and whether its DSP state is as prepare or reset left it.
\* A Global node has one instance (index -1), a PerVoice node one for each
\* of the max_voices voices.
ParamIds == {0}
ParamValues == {1}
AudioIds == {7}

NewInstance == [params |-> [p \in ParamIds |-> 0], audio |-> {}, fresh |-> TRUE]

InstanceIds(node, mv) == IF node.per_voice THEN 0..(mv - 1) ELSE {-1}

\* The instances Graph::add_node creates for the nodes ns.
NewNodeState(ns, mv) ==
    [idx \in DOMAIN ns |-> [v \in InstanceIds(ns[idx], mv) |-> NewInstance]]

\* The instances that ran in one Graph::process are no longer fresh.
Touched(state, calls) ==
    [idx \in DOMAIN state |->
        [v \in DOMAIN state[idx] |->
            IF idx \in DOMAIN calls /\ v \in DOMAIN calls[idx]
            THEN [state[idx][v] EXCEPT !.fresh = FALSE]
            ELSE state[idx][v]]]

NodeInstance_set_param(inst, param_id, value) ==
    [v \in DOMAIN inst |->
        [inst[v] EXCEPT !.params =
            [p \in DOMAIN @ \cup {param_id} |-> IF p = param_id THEN value ELSE @[p]]]]

NodeInstance_start_audio(inst, audio_id) ==
    [v \in DOMAIN inst |->
        IF v = -1 THEN [inst[v] EXCEPT !.audio = @ \cup {audio_id}] ELSE inst[v]]

NodeInstance_stop_audio(inst, audio_id) ==
    [v \in DOMAIN inst |->
        IF v = -1 THEN [inst[v] EXCEPT !.audio = @ \ {audio_id}] ELSE inst[v]]

NodeInstance_reset(inst) ==
    [v \in DOMAIN inst |-> [inst[v] EXCEPT !.fresh = TRUE, !.audio = {}]]

Graph_set_param_by_id_as_index(state, map, node_id, param_id, value) ==
    IF node_id \in DOMAIN state
    THEN [state EXCEPT ![node_id] = NodeInstance_set_param(@, param_id, value)]
    ELSE state

\* HashMap::get on id_to_index, then Vec::get_mut on nodes.
Graph_set_param_by_id(state, map, node_id, param_id, value) ==
    IF node_id \in DOMAIN map /\ map[node_id] \in DOMAIN state
    THEN [state EXCEPT ![map[node_id]] = NodeInstance_set_param(@, param_id, value)]
    ELSE state

Graph_start_audio_by_id(state, map, node_id, audio_id) ==
    IF node_id \in DOMAIN map /\ map[node_id] \in DOMAIN state
    THEN [state EXCEPT ![map[node_id]] = NodeInstance_start_audio(@, audio_id)]
    ELSE state

Graph_stop_audio_by_id(state, map, node_id, audio_id) ==
    IF node_id \in DOMAIN map /\ map[node_id] \in DOMAIN state
    THEN [state EXCEPT ![map[node_id]] = NodeInstance_stop_audio(@, audio_id)]
    ELSE state

\* Graph::reset: every instance is reset and every silent flag cleared.
Graph_reset_nodes(ns) == [idx \in DOMAIN ns |-> [ns[idx] EXCEPT !.silent = FALSE]]

Graph_reset_state(state) ==
    [idx \in DOMAIN state |-> NodeInstance_reset(state[idx])]

\* ------------------------------------------------------------------------
\* state/graph_def.rs, node_factory.rs, compile.rs
\*
\* A GraphDef holds its NodeDefs by NodeId, its connections in a list and an
\* optional output node. A registry maps the type ids that have a factory to
\* the polyphony of the nodes the factory creates.
\* ------------------------------------------------------------------------
GraphDef_new ==
    [nodes |-> <<>>, connections |-> <<>>, output_node |-> None, next_id |-> 0]

NodeDef(type_id, param_values) ==
    [type_id |-> type_id, param_values |-> param_values]

ConnectionDef(source_node, source_port, dest_node, dest_port) ==
    [source_node |-> source_node, source_port |-> source_port,
     dest_node |-> dest_node, dest_port |-> dest_port]

\* The Option get_factory returns: <<polyphony>> for Some, <<>> for None.
NodeRegistry_get_factory(registry, type_id) ==
    IF type_id \in DOMAIN registry THEN <<registry[type_id]>> ELSE <<>>

\* The node Graph::add_node pushes.
GraphNode(per_voice, inputs) ==
    [per_voice |-> per_voice, inputs |-> inputs, silent |-> FALSE]

\* Graph::new. The id_to_index of a Graph is assigned here and nowhere else.
Graph_new ==
    [nodes |-> <<>>, node_state |-> <<>>, output_node |-> 0,
     id_to_index |-> <<>>, eval_order |-> <<>>]

\* A function extended or overwritten at one key (Vec::push at the index
\* nodes.len(), HashMap::insert).
With(f, k, x) == [j \in DOMAIN f \cup {k} |-> IF j = k THEN x ELSE f[j]]

Graph_add_node(g, polyphony, mv) ==
    LET idx == Cardinality(DOMAIN g.nodes)
        node == GraphNode(polyphony = "PerVoice", <<>>)
    IN  [g EXCEPT !.nodes = With(@, idx, node),
                  !.node_state =
                      With(@, idx, [v \in InstanceIds(node, mv) |-> NewInstance])]

\* Graph::set_param, by graph index, for each (param_id, value) of a NodeDef.
RECURSIVE Graph_set_params(_, _, _)
Graph_set_params(state, idx, param_values) ==
    IF DOMAIN param_values = {} THEN state
    ELSE LET p == Min(DOMAIN param_values)
         IN  Graph_set_params(
                 IF idx \in DOMAIN state
                 THEN [state EXCEPT ![idx] =
                          NodeInstance_set_param(@, p, param_values[p])]
                 ELSE state,
                 idx,
                 [q \in DOMAIN param_values \ {p} |-> param_values[q]])

Graph_connect(ns, src, dst) ==
    IF src \in Range(ns[dst].inputs) THEN ns
    ELSE [ns EXCEPT ![dst].inputs = Append(@, src)]

RECURSIVE CompileNodes_descending(_, _, _, _, _)
CompileNodes_descending(def, registry, mv, node_ids, acc) ==
    IF node_ids = <<>> THEN acc
    ELSE LET node_id == node_ids[Len(node_ids)]
             node_def == def.nodes[node_id]
             factory == NodeRegistry_get_factory(registry, node_def.type_id)
         IN  IF factory = <<>>
             THEN [ok |-> FALSE,
                   error |-> [kind |-> "UnknownNodeType", node_id |-> node_id,
                              type_id |-> node_def.type_id]]
             ELSE LET idx == Cardinality(DOMAIN acc.graph.nodes)
                      added == Graph_add_node(acc.graph, factory[1], mv)
                  IN  CompileNodes_descending(def, registry, mv,
                          SubSeq(node_ids, 1, Len(node_ids) - 1),
                          [acc EXCEPT
                              !.graph = [added EXCEPT !.node_state =
                                  Graph_set_params(@, idx, node_def.param_values)],
                              !.local = With(@, node_id, idx)])

\* The first loop of compile, over the NodeIds in ascending order. `local` is
\* the function's own id_to_index.
RECURSIVE CompileNodes(_, _, _, _, _)
CompileNodes(def, registry, mv, node_ids, acc) ==
    IF node_ids = <<>> THEN acc
    ELSE LET node_id == Head(node_ids)
             node_def == def.nodes[node_id]
             factory == NodeRegistry_get_factory(registry, node_def.type_id)
         IN  IF factory = <<>>
             THEN [ok |-> FALSE,
                   error |-> [kind |-> "UnknownNodeType", node_id |-> node_id,
                              type_id |-> node_def.type_id]]
             ELSE LET idx == Cardinality(DOMAIN acc.graph.nodes)
                      added == Graph_add_node(acc.graph, factory[1], mv)
                  IN  CompileNodes(def, registry, mv, Tail(node_ids),
                          [acc EXCEPT
                              !.graph = [added EXCEPT !.node_state =
                                  Graph_set_params(@, idx, node_def.param_values)],
                              !.local = With(@, node_id, idx)])

RECURSIVE CompileConnections_skips_dangling(_, _, _)
CompileConnections_skips_dangling(conns, connected, acc) ==
    IF conns = <<>> THEN acc
    ELSE LET conn == Head(conns)
             pair == <<conn.source_node, conn.dest_node>>
         IN  IF \/ pair \in connected
                \/ conn.source_node \notin DOMAIN acc.local
                \/ conn.dest_node \notin DOMAIN acc.local
             THEN CompileConnections_skips_dangling(Tail(conns), connected, acc)
             ELSE CompileConnections_skips_dangling(
                      Tail(conns), connected \cup {pair},
                      [acc EXCEPT !.graph.nodes =
                          Graph_connect(@, acc.local[conn.source_node],
                                        acc.local[conn.dest_node])])

\* The second loop of compile, over the connections in list order.
\* `connected` holds the (source, dest) pairs already seen.
RECURSIVE CompileConnections(_, _, _)
CompileConnections(conns, connected, acc) ==
    IF conns = <<>> THEN acc
    ELSE LET conn == Head(conns)
             pair == <<conn.source_node, conn.dest_node>>
         IN  IF pair \in connected
             THEN CompileConnections(Tail(conns), connected, acc)
             ELSE IF \/ conn.source_node \notin DOMAIN acc.local
                     \/ conn.dest_node \notin DOMAIN acc.local
             THEN [ok |-> FALSE,
                   error |-> [kind |-> "InvalidConnection",
                              source |-> conn.source_node,
                              dest |-> conn.dest_node]]
             ELSE CompileConnections(Tail(conns), connected \cup {pair},
                      [acc EXCEPT !.graph.nodes =
                          Graph_connect(@, acc.local[conn.source_node],
                                        acc.local[conn.dest_node])])

\* The output node compile chooses.
CompileOutput(def, acc) ==
    IF def.output_node # None
    THEN IF def.output_node \in DOMAIN acc.local
         THEN acc.local[def.output_node] ELSE acc.graph.output_node
    ELSE IF DOMAIN def.nodes # {}
         THEN Cardinality(DOMAIN acc.graph.nodes) - 1
         ELSE acc.graph.output_node

\* compile: [ok |-> TRUE, graph |-> the Graph] or [ok |-> FALSE, error |-> e].
compile(def, registry, mv) ==
    LET start == [ok |-> TRUE, graph |-> Graph_new, local |-> <<>>]
        built == CompileNodes(def, registry, mv, Ascending(DOMAIN def.nodes), start)
        wired == IF built.ok THEN CompileConnections(def.connections, {}, built)
                 ELSE built
    IN  IF wired.ok
        THEN [ok |-> TRUE,
              graph |-> [wired.graph EXCEPT !.output_node = CompileOutput(def, wired)]]
        ELSE wired

\* ------------------------------------------------------------------------
\* state/graph_def.rs, state/session.rs, bridge.rs: the editor's Session
\*
\* A NodeDef is known by its type and parameter values; its position and
\* label are left out. The arrangement is known by the calls made on it.
\* ------------------------------------------------------------------------
\* next_id is a u32; the number of nodes a session adds is bounded far below
\* the point where it would wrap.
GraphDef_add_node(g, type_id) ==
    [g EXCEPT !.next_id = @ + 1,
              !.nodes = With(@, g.next_id, NodeDef(type_id, <<>>))]

GraphDef_add_node_def(g, node) ==
    [g EXCEPT !.next_id = @ + 1,
              !.nodes = With(@, g.next_id, node)]

GraphDef_remove_node(g, id) ==
    [g EXCEPT !.connections =
                  SelectSeq(@, LAMBDA c : c.source_node # id /\ c.dest_node # id),
              !.output_node = IF @ = id THEN None ELSE @,
              !.nodes = [n \in DOMAIN @ \ {id} |-> @[n]]]

GraphDef_connect_always_pushes(g, source_node, source_port, dest_node, dest_port) ==
    [g EXCEPT !.connections =
        Append(@, ConnectionDef(source_node, source_port, dest_node, dest_port))]

GraphDef_connect(g, source_node, source_port, dest_node, dest_port) ==
    LET conn == ConnectionDef(source_node, source_port, dest_node, dest_port)
    IN  IF conn \in Range(g.connections) THEN g
        ELSE [g EXCEPT !.connections = Append(@, conn)]

GraphDef_disconnect(g, source_node, source_port, dest_node, dest_port) ==
    LET conn == ConnectionDef(source_node, source_port, dest_node, dest_port)
    IN  [g EXCEPT !.connections = SelectSeq(@, LAMBDA c : c # conn)]

GraphDef_set_param(g, node_id, param_id, value) ==
    IF node_id \in DOMAIN g.nodes
    THEN [g EXCEPT !.nodes[node_id].param_values = With(@, param_id, value)]
    ELSE g

TransportState_new == [playing |-> FALSE, bpm |-> 120, beat_position |-> 0]

Session_new ==
    [graph |-> GraphDef_new, transport |-> TransportState_new,
     arrangement |-> <<>>]

ArrangementCommands ==
    {"CreateClip", "DeleteClip", "AddNoteToClip", "RemoveNoteFromClip",
     "ClearClip", "SetClipLength", "SetClipLooping",
     "CreateTrack", "DeleteTrack", "SetTrackVolume", "SetTrackPan",
     "SetTrackMute", "SetTrackSolo", "SetTrackArmed", "SetTrackTarget",
     "SetClipSlot",
     "CreateScene", "DeleteScene", "LaunchScene", "LaunchClip", "StopClip",
     "StopAllClips", "ScheduleClip", "RemoveClipPlacement"}

\* SessionHandle::apply_to_session.
SessionHandle_apply_to_session(se, cmd) ==
    CASE cmd.kind = "AddNode" ->
            [se EXCEPT !.graph = GraphDef_add_node(@, cmd.type_id)]
      [] cmd.kind = "AddNodeDef" ->
            [se EXCEPT !.graph = GraphDef_add_node_def(@, cmd.node)]
      [] cmd.kind = "RemoveNode" ->
            [se EXCEPT !.graph = GraphDef_remove_node(@, cmd.node_id)]
      [] cmd.kind = "Connect" ->
            [se EXCEPT !.graph =
                GraphDef_connect(@, cmd.source_node, cmd.source_port,
                                 cmd.dest_node, cmd.dest_port)]
      [] cmd.kind = "Disconnect" ->
            [se EXCEPT !.graph =
                GraphDef_disconnect(@, cmd.source_node, cmd.source_port,
                                    cmd.dest_node, cmd.dest_port)]
      [] cmd.kind = "SetOutputNode" ->
            [se EXCEPT !.graph.output_node = cmd.node_id]
      [] cmd.kind = "SetParam" ->
            [se EXCEPT !.graph =
                GraphDef_set_param(@, cmd.node_id, cmd.param_id, cmd.value)]
      [] cmd.kind = "SetTempo" -> [se EXCEPT !.transport.bpm = cmd.bpm]
      [] cmd.kind = "Play" -> [se EXCEPT !.transport.playing = TRUE]
      [] cmd.kind = "Stop" -> [se EXCEPT !.transport.playing = FALSE]
      [] cmd.kind = "ClearGraph" -> [se EXCEPT !.graph = GraphDef_new]
      [] cmd.kind \in ArrangementCommands ->
            [se EXCEPT !.arrangement = Append(@, cmd)]
      [] cmd.kind \in {"MoveNode", "RecompileGraph", "SyncTrackParams",
                       "SyncAllTrackParams", "BeginParamGesture",
                       "EndParamGesture", "Seek", "NoteOn", "NoteOff",
                       "LoadConnections"} -> se

\* The NodeIds add_node has returned, after the command cmd was applied to
\* the session se.
IssuedAfter(ids, se, cmd) ==
    IF cmd.kind \in {"AddNode", "AddNodeDef"}
    THEN Append(ids, se.graph.next_id) ELSE ids

NoCommand == [kind |-> "None"]

\* ------------------------------------------------------------------------
\* transport.rs: MusicalTransport
\*
\* Beats are counted in ticks of 1/sample_rate beat, so that the sample rate
\* cancels: advancing by `frames` samples adds frames * bpm / 60 ticks, and
\* an offset of `ticks` is ticks * 60 / bpm samples, truncated by the cast
\* `as usize`. Tempos are multiples of 60, for which both are integers or
\* integer divisions.
\* ------------------------------------------------------------------------
BpmChoices == {60, 120}

MusicalTransport_new ==
    [bpm |-> 120, sample_pos |-> 0, beat_pos |-> 0]

\* advance_samples that moves the beat position and not the sample position.
MusicalTransport_advance_samples_beats_only(t, frames) ==
    [t EXCEPT !.beat_pos = t.beat_pos + (frames * t.bpm) \div 60]

MusicalTransport_advance_samples(t, frames) ==
    [t EXCEPT !.sample_pos = t.sample_pos + frames,
              !.beat_pos = t.beat_pos + (frames * t.bpm) \div 60]

MusicalTransport_set_bpm(t, bpm) == [t EXCEPT !.bpm = bpm]

MusicalTransport_beat_offset_to_sample_offset(t, beats) ==
    (beats * 60) \div t.bpm

\* Option<usize>: None for an event before the current beat position.
MusicalTransport_event_sample_offset(t, event) ==
    IF event.beat < t.beat_pos THEN None
    ELSE MusicalTransport_beat_offset_to_sample_offset(t, event.beat - t.beat_pos)

MusicalTransport_event_sample_position(t, event) ==
    LET offset == MusicalTransport_event_sample_offset(t, event) IN
    IF offset = None THEN None ELSE t.sample_pos + offset

\* ------------------------------------------------------------------------
\* execution_plan.rs
\* ------------------------------------------------------------------------
ExecutionPlan_new ==
    [block_start_sample |-> 0, block_frames |-> 0, bpm |-> 120, slices |-> <<>>]

SlicePlan_new_at_zero(frame_offset, frame_count) ==
    [frame_offset |-> 0, frame_count |-> frame_count, events |-> <<>>]

SlicePlan_new(frame_offset, frame_count) ==
    [frame_offset |-> frame_offset, frame_count |-> frame_count, events |-> <<>>]

\* ------------------------------------------------------------------------
\* plan_handoff.rs
\* ------------------------------------------------------------------------
\* The index of the slot write_plan hands out.
PlanHandoff_write_index(read) == 1 - read

PlanHandoff_publish_keeps_index(read) == read

\* The value publish stores into read_index.
PlanHandoff_publish(read) == 1 - read

PlanHandoff_read_plan(ps, read) == ps[read]

\* ------------------------------------------------------------------------
\* scheduler.rs
\* ------------------------------------------------------------------------
Scheduler_compile_event_untargeted(event) ==
    CASE event.kind = "NoteOn" ->
            [kind |-> "NoteOn", note |-> event.note, velocity |-> event.velocity]
      [] event.kind = "NoteOff" ->
            [kind |-> "NoteOff", note |-> event.note]
      [] event.kind = "NoteOnTarget" ->
            [kind |-> "NoteOn", note |-> event.note, velocity |-> event.velocity]
      [] event.kind = "NoteOffTarget" ->
            [kind |-> "NoteOff", note |-> event.note]
      [] event.kind = "ParamChange" ->
            [kind |-> "ParamChange", node_id |-> event.node_id,
             param_id |-> event.param_id, value |-> event.value]
      [] event.kind = "AudioStart" ->
            [kind |-> "AudioStart", node_id |-> event.node_id,
             audio_id |-> event.audio_id, start_sample |-> event.start_sample,
             duration_samples |-> event.duration_samples, gain |-> event.gain]
      [] event.kind = "AudioStop" ->
            [kind |-> "AudioStop", node_id |-> event.node_id,
             audio_id |-> event.audio_id]

Scheduler_compile_event(event) ==
    CASE event.kind = "NoteOn" ->
            [kind |-> "NoteOn", note |-> event.note, velocity |-> event.velocity]
      [] event.kind = "NoteOff" ->
            [kind |-> "NoteOff", note |-> event.note]
      [] event.kind = "NoteOnTarget" ->
            [kind |-> "NoteOnTarget", node_id |-> event.node_id,
             note |-> event.note, velocity |-> event.velocity]
      [] event.kind = "NoteOffTarget" ->
            [kind |-> "NoteOffTarget", node_id |-> event.node_id,
             note |-> event.note]
      [] event.kind = "ParamChange" ->
            [kind |-> "ParamChange", node_id |-> event.node_id,
             param_id |-> event.param_id, value |-> event.value]
      [] event.kind = "AudioStart" ->
            [kind |-> "AudioStart", node_id |-> event.node_id,
             audio_id |-> event.audio_id, start_sample |-> event.start_sample,
             duration_samples |-> event.duration_samples, gain |-> event.gain]
      [] event.kind = "AudioStop" ->
            [kind |-> "AudioStop", node_id |-> event.node_id,
             audio_id |-> event.audio_id]

RECURSIVE InWindowEvents(_, _, _, _)
\* The first loop of compile_block: (sample_pos, event) for the events whose
\* position lies in [block_start_sample, block_end_sample), in input order.
InWindowEvents(t, musical_events, block_start_sample, block_end_sample) ==
    IF musical_events = <<>> THEN <<>>
    ELSE LET event == Head(musical_events)
             pos   == MusicalTransport_event_sample_position(t, event)
         IN  (IF /\ pos # None
                 /\ pos >= block_start_sample
                 /\ pos < block_end_sample
              THEN <<[pos |-> pos, event |-> event]>> ELSE <<>>)
             \o InWindowEvents(t, Tail(musical_events),
                               block_start_sample, block_end_sample)

\* Where a stable sort puts x among the already sorted s: behind every
\* element whose key is not greater.
InsertByKey_before_equal(s, x) ==
    LET k == Cardinality({i \in DOMAIN s : s[i].pos < x.pos})
    IN  SubSeq(s, 1, k) \o <<x>> \o SubSeq(s, k + 1, Len(s))

InsertByKey(s, x) ==
    LET k == Cardinality({i \in DOMAIN s : s[i].pos <= x.pos})
    IN  SubSeq(s, 1, k) \o <<x>> \o SubSeq(s, k + 1, Len(s))

RECURSIVE SortByKeyInto(_, _)
SortByKeyInto(sorted, rest) ==
    IF rest = <<>> THEN sorted
    ELSE SortByKeyInto(InsertByKey(sorted, Head(rest)), Tail(rest))

\* slice::sort_by_key (a stable sort) on the sample position.
SortByKey(s) == SortByKeyInto(<<>>, s)

\* The test of the inner while loop: the event sits at the cursor.
AtCursor_or_later(event_sample, cursor_sample) == event_sample >= cursor_sample

AtCursor(event_sample, cursor_sample) == event_sample = cursor_sample

RECURSIVE EventsAtCursor(_, _, _)
\* The inner while loop: how many events from event_index on sit at the cursor.
EventsAtCursor(scratch, event_index, cursor_sample) ==
    IF event_index <= Len(scratch)
       /\ AtCursor(scratch[event_index].pos, cursor_sample)
    THEN 1 + EventsAtCursor(scratch, event_index + 1, cursor_sample)
    ELSE 0

Min2(a, b) == IF a <= b THEN a ELSE b

RECURSIVE BuildSlices(_, _, _, _, _, _)
\* The outer while loop of compile_block. event_index counts from 1.
BuildSlices(scratch, block_start_sample, block_frames, event_index, cursor_frame, slices) ==
    IF ~(cursor_frame < block_frames) THEN slices
    ELSE
    LET cursor_sample == block_start_sample + cursor_frame
        n == EventsAtCursor(scratch, event_index, cursor_sample)
        compiled_scratch ==
            [k \in 1..n |-> Scheduler_compile_event(
                                scratch[event_index + k - 1].event)]
        next_index == event_index + n
        next_boundary_frame ==
            IF next_index <= Len(scratch)
            THEN scratch[next_index].pos - block_start_sample
            ELSE block_frames
        slice_end_frame == Min2(next_boundary_frame, block_frames)
        slice_frames == slice_end_frame - cursor_frame
    IN  IF slice_frames > 0
        THEN BuildSlices(scratch, block_start_sample, block_frames, next_index,
                 slice_end_frame,
                 Append(slices,
                     [SlicePlan_new(cursor_frame, slice_frames)
                         EXCEPT !.events = compiled_scratch]))
        ELSE BuildSlices(scratch, block_start_sample, block_frames, next_index,
                 slice_end_frame,
                 IF compiled_scratch # <<>> /\ slices # <<>>
                 THEN [slices EXCEPT ![Len(slices)].events = @ \o compiled_scratch]
                 ELSE slices)

\* The plan compile_block leaves in the write slot.
Scheduler_compile_block(t, block_frames, musical_events) ==
    LET block_start_sample == t.sample_pos
        block_end_sample == block_start_sample + block_frames
        event_scratch ==
            SortByKey(InWindowEvents(t, musical_events,
                                     block_start_sample, block_end_sample))
    IN  [block_start_sample |-> block_start_sample,
         block_frames |-> block_frames,
         bpm |-> t.bpm,
         slices |->
            IF event_scratch = <<>>
            THEN <<SlicePlan_new(0, block_frames)>>
            ELSE BuildSlices(event_scratch, block_start_sample, block_frames,
                             1, 0, <<>>)]

\* ------------------------------------------------------------------------
\* engine.rs: process_plan
\* ------------------------------------------------------------------------
\* The slot order ghost after a note_on on the voices vs.
OrderAfterNoteOn(vs, order) ==
    IF NoteOnSlot(vs) = None THEN order
    ELSE Append(SelectSeqBy(order, Range(order) \ {NoteOnSlot(vs)}),
                NoteOnSlot(vs))

\* st is the engine during process_plan: sample_pos, voices, the graph's
\* nodes, vtd, calls, node_state and id_to_index, the note_on order and the
\* log of apply_event calls.
Engine_apply_event(st, event, at) ==
    LET logged == [st EXCEPT
                      !.applied = Append(@, [at |-> at, event |-> event]),
                      !.trace = Append(@, [step |-> "apply_event", event |-> event])]
    IN  CASE event.kind \in {"NoteOn", "NoteOnTarget"} ->
                [logged EXCEPT
                    !.voices = VoiceAllocator_note_on(@, event.note, event.velocity),
                    !.order = OrderAfterNoteOn(st.voices, @)]
          [] event.kind \in {"NoteOff", "NoteOffTarget"} ->
                [logged EXCEPT !.voices = VoiceAllocator_note_off(@, event.note)]
          [] event.kind = "ParamChange" ->
                [logged EXCEPT !.node_state =
                    Graph_set_param_by_id(@, st.id_to_index, event.node_id,
                                          event.param_id, event.value)]
          [] event.kind = "AudioStart" ->
                [logged EXCEPT !.node_state =
                    Graph_start_audio_by_id(@, st.id_to_index, event.node_id,
                                            event.audio_id)]
          [] event.kind = "AudioStop" ->
                [logged EXCEPT !.node_state =
                    Graph_stop_audio_by_id(@, st.id_to_index, event.node_id,
                                           event.audio_id)]

RECURSIVE ApplyEvents(_, _, _)
ApplyEvents(st, events, at) ==
    IF events = <<>> THEN st
    ELSE ApplyEvents(Engine_apply_event(st, Head(events), at), Tail(events), at)

\* process_slice with the two halves swapped: the graph first, the events
\* of the slice after it.
Engine_process_slice_graph_first(st, slice, order, ret) ==
    LET slice_start == st.sample_pos + slice.frame_offset
        g == Graph_process(st.nodes, order, st.voices, ret)
        processed ==
            [st EXCEPT !.nodes = g.nodes, !.vtd = g.vtd, !.calls = g.calls,
                       !.node_state = Touched(@, g.calls),
                       !.trace = Append(@, [step |-> "graph_process",
                                            frames |-> slice.frame_count,
                                            sample_position |-> slice_start,
                                            voices |-> st.voices])]
    IN  ApplyEvents(processed, slice.events, slice_start)

\* trace lists what process_plan does, in the order it does it: an entry for
\* every apply_event, one for every Graph.process with the arguments it gets,
\* one for clear_triggers.
Engine_process_slice(st, slice, order, ret) ==
    LET slice_start == st.sample_pos + slice.frame_offset
        after == ApplyEvents(st, slice.events, slice_start)
        g == Graph_process(after.nodes, order, after.voices, ret)
    IN  [after EXCEPT !.nodes = g.nodes, !.vtd = g.vtd, !.calls = g.calls,
                      !.node_state = Touched(@, g.calls),
                      !.trace = Append(@, [step |-> "graph_process",
                                           frames |-> slice.frame_count,
                                           sample_position |-> slice_start,
                                           voices |-> after.voices])]

RECURSIVE ProcessSlices(_, _, _, _, _)
ProcessSlices(st, plan, k, order, rets) ==
    IF k > Len(plan.slices) THEN st
    ELSE ProcessSlices(Engine_process_slice(st, plan.slices[k], order, rets[k]),
                       plan, k + 1, order, rets)

Engine_process_plan(st, plan, order, rets) ==
    LET start == [trace |-> <<>>]
                 @@ [st EXCEPT !.sample_pos = plan.block_start_sample,
                               !.applied = <<>>]
        done  == ProcessSlices(start, plan, 1, order, rets)
    IN  [done EXCEPT !.voices = VoiceAllocator_clear_triggers(@),
                     !.trace = Append(@, [step |-> "clear_triggers"])]

\* ------------------------------------------------------------------------
\* engine.rs: process_command, reset
\*
\* A command is a record with its kind and, where the engine reads them, its
\* fields. en is the engine: voices, the note_on order, the graph's nodes,
\* node_state and id_to_index, playing and engine_bpm.
\* ------------------------------------------------------------------------
GraphStructureCommands ==
    {"AddNode", "AddNodeDef", "RemoveNode", "Connect", "Disconnect",
     "SetOutputNode", "ClearGraph", "LoadConnections", "RecompileGraph"}

SessionOnlyCommands ==
    {"BeginParamGesture", "EndParamGesture", "MoveNode",
     "CreateClip", "DeleteClip", "AddNoteToClip", "RemoveNoteFromClip",
     "ClearClip", "SetClipLength", "SetClipLooping",
     "CreateTrack", "DeleteTrack", "SetTrackVolume", "SetTrackPan",
     "SetTrackMute", "SetTrackSolo", "SetTrackArmed", "SetTrackTarget",
     "SetClipSlot",
     "CreateScene", "DeleteScene", "LaunchScene", "LaunchClip", "StopClip",
     "StopAllClips", "ScheduleClip", "RemoveClipPlacement",
     "SyncTrackParams", "SyncAllTrackParams"}

Engine_reset(en) ==
    [en EXCEPT !.nodes = Graph_reset_nodes(@),
               !.node_state = Graph_reset_state(@)]

\* What process_command returns for a command of the kind given.
Engine_process_command_ret_always_handled(kind) == TRUE

Engine_process_command_ret(kind) ==
    CASE kind \in {"SetParam", "Play", "Stop", "SetTempo", "Seek",
                   "NoteOn", "NoteOff"} -> TRUE
      [] kind \in GraphStructureCommands -> FALSE
      [] kind \in SessionOnlyCommands -> TRUE

\* The engine after process_command.
Engine_process_command(en, cmd) ==
    CASE cmd.kind = "SetParam" ->
            [en EXCEPT !.node_state =
                Graph_set_param_by_id(@, en.id_to_index, cmd.node_id,
                                      cmd.param_id, cmd.value)]
      [] cmd.kind = "Play" -> [en EXCEPT !.playing = TRUE]
      [] cmd.kind = "Stop" -> Engine_reset([en EXCEPT !.playing = FALSE])
      [] cmd.kind = "SetTempo" -> [en EXCEPT !.engine_bpm = cmd.bpm]
      [] cmd.kind = "Seek" -> Engine_reset(en)
      [] cmd.kind = "NoteOn" ->
            [en EXCEPT !.voices = VoiceAllocator_note_on(@, cmd.note, cmd.velocity),
                       !.order = OrderAfterNoteOn(en.voices, @)]
      [] cmd.kind = "NoteOff" ->
            [en EXCEPT !.voices = VoiceAllocator_note_off(@, cmd.note)]
      [] OTHER -> en

\* ------------------------------------------------------------------------
\* clip_playback.rs: ClipPlayback. Beats are whole ticks; on them the f64
\* arithmetic of the source (+, -, %, comparisons) is exact. A clip holds
\* notes only, so the audio regions of a clip are left out, and a note's
\* velocity, which is copied into the event unchanged, is left out too.
\* ------------------------------------------------------------------------
NoteDef(start, duration, note) == [start |-> start, duration |-> duration, note |-> note]

ClipDef(length, looping, notes) == [length |-> length, looping |-> looping, notes |-> notes]

TrackDef(mute, solo, target_node) == [mute |-> mute, solo |-> solo, target_node |-> target_node]

\* Arrangement: clips by ClipId, tracks by TrackId.
Arrangement_new == [clips |-> <<>>, tracks |-> <<>>]

Arrangement_has_solo(a) == \E t \in DOMAIN a.tracks : a.tracks[t].solo

Arrangement_is_track_audible(a, track_id) ==
    IF track_id \in DOMAIN a.tracks
      THEN IF a.tracks[track_id].mute THEN FALSE
           ELSE IF Arrangement_has_solo(a) THEN a.tracks[track_id].solo
           ELSE TRUE
      ELSE FALSE

NoteOnTarget(beat, node_id, note) == [kind |-> "NoteOnTarget", beat |-> beat, node_id |-> node_id, note |-> note]

NoteOffTarget(beat, node_id, note) == [kind |-> "NoteOffTarget", beat |-> beat, node_id |-> node_id, note |-> note]

PlayingClip_new(clip_id, track_id, start_beat) == [clip_id |-> clip_id, track_id |-> track_id, start_beat |-> start_beat, clip_position |-> 0]

ActiveNote(track_id, clip_id, target_node, note) == [track_id |-> track_id, clip_id |-> clip_id, target_node |-> target_node, note |-> note]

ActiveNoteState(key, end_beat) == [key |-> key, end_beat |-> end_beat]

ClipPlayback_new == [playing |-> <<>>, active_notes |-> <<>>, event_buffer |-> <<>>]

Without(f, k) == [j \in DOMAIN f \ {k} |-> f[j]]

\* stop_track removes the track's clip and forgets the clip's active notes;
\* it pushes no event.
ClipPlayback_stop_track(cp, track_id) ==
    IF track_id \in DOMAIN cp.playing
      THEN [cp EXCEPT
              !.playing = Without(@, track_id),
              !.active_notes =
                  SelectSeq(@, LAMBDA n :
                      ~(n.key.track_id = track_id
                        /\ n.key.clip_id = cp.playing[track_id].clip_id))]
      ELSE cp

ClipPlayback_start_clip(cp, clip_id, track_id, current_beat) ==
    [ClipPlayback_stop_track(cp, track_id) EXCEPT
        !.playing = With(@, track_id, PlayingClip_new(clip_id, track_id, current_beat))]

ClipPlayback_stop_all(cp) == [cp EXCEPT !.playing = <<>>, !.active_notes = <<>>]

\* sync_with_arrangement: start what playing_clips names and is not playing,
\* then stop what is playing and is not named. Each track is handled on its
\* own, so the HashMap's iteration order does not show in the result.
RECURSIVE SyncStartLoop(_, _, _, _)
SyncStartLoop(cp, playing_clips, tracks, current_beat) ==
    IF tracks = <<>> THEN cp
    ELSE LET t == Head(tracks)
             c == playing_clips[t]
             started ==
                 IF t \notin DOMAIN cp.playing
                   THEN ClipPlayback_start_clip(cp, c, t, current_beat)
                 ELSE IF cp.playing[t].clip_id # c
                   THEN ClipPlayback_start_clip(cp, c, t, current_beat)
                 ELSE cp
         IN SyncStartLoop(started, playing_clips, Tail(tracks), current_beat)

RECURSIVE SyncStopLoop(_, _)
SyncStopLoop(cp, tracks_to_stop) ==
    IF tracks_to_stop = <<>> THEN cp
    ELSE SyncStopLoop(ClipPlayback_stop_track(cp, Head(tracks_to_stop)), Tail(tracks_to_stop))

ClipPlayback_sync_with_arrangement(cp, playing_clips, current_beat) ==
    LET started == SyncStartLoop(cp, playing_clips, Ascending(DOMAIN playing_clips), current_beat)
    IN SyncStopLoop(started, Ascending(DOMAIN started.playing \ DOMAIN playing_clips))

ClipPlayback_generate_note_event_inline(cp, track_id, clip_id, note, target_node, clip, clip_start, clip_end, block_start_beat) ==
    LET wrapped_start == clip_start % clip.length
        wrapped_end == clip_end % clip.length
        should_trigger ==
            IF clip.looping
              THEN IF wrapped_start <= wrapped_end
                     THEN note.start >= wrapped_start /\ note.start < wrapped_end
                     ELSE note.start >= wrapped_start \/ note.start < wrapped_end
              ELSE note.start >= clip_start /\ note.start < clip_end
        offset_in_block ==
            IF clip.looping
              THEN IF note.start >= wrapped_start
                     THEN note.start - wrapped_start
                     ELSE (clip.length - wrapped_start) + note.start
              ELSE note.start - clip_start
        absolute_beat == block_start_beat + offset_in_block
    IN IF should_trigger
         THEN [cp EXCEPT
                 !.event_buffer = Append(@, NoteOnTarget(absolute_beat, target_node, note.note)),
                 !.active_notes =
                     Append(@, ActiveNoteState(
                                   ActiveNote(track_id, clip_id, target_node, note.note),
                                   absolute_beat + note.duration))]
         ELSE cp

RECURSIVE ClipNotesLoop(_, _, _, _, _, _, _, _, _)
ClipNotesLoop(cp, track_id, clip_id, notes, target_node, clip, clip_start, clip_end, block_start_beat) ==
    IF notes = <<>> THEN cp
    ELSE ClipNotesLoop(
             ClipPlayback_generate_note_event_inline(cp, track_id, clip_id,
                 Head(notes), target_node, clip, clip_start, clip_end,
                 block_start_beat),
             track_id, clip_id, Tail(notes), target_node, clip, clip_start,
             clip_end, block_start_beat)

ClipPlayback_generate_clip_events_inline(cp, track_id, clip_id, clip_position, clip, target_node, start_beat, end_beat) ==
    LET clip_start == clip_position
        clip_end == clip_position + (end_beat - start_beat)
    IN IF ~clip.looping /\ clip_start >= clip.length THEN cp
       ELSE ClipNotesLoop(cp, track_id, clip_id, clip.notes, target_node, clip,
                          clip_start, clip_end, start_beat)

\* generate_note_offs: one pass over active_notes with swap_remove.
RECURSIVE NoteOffsLoop(_, _, _, _)
NoteOffsLoop(cp, i, start_beat, end_beat) ==
    IF i > Len(cp.active_notes) THEN cp
    ELSE LET state == cp.active_notes[i]
             last == Len(cp.active_notes)
         IN IF state.end_beat >= start_beat /\ state.end_beat < end_beat
              THEN NoteOffsLoop(
                       [cp EXCEPT
                          !.event_buffer =
                              Append(@, NoteOffTarget(state.end_beat,
                                            state.key.target_node, state.key.note)),
                          !.active_notes =
                              [j \in 1..(last - 1) |-> IF j = i THEN @[last] ELSE @[j]]],
                       i, start_beat, end_beat)
              ELSE NoteOffsLoop(cp, i + 1, start_beat, end_beat)

ClipPlayback_generate_note_offs(cp, start_beat, end_beat) == NoteOffsLoop(cp, 1, start_beat, end_beat)

\* generate_events, one playing track after the other: a track whose clip
\* or track is gone, that is not audible or that has no target node is
\* skipped whole, its clip_position included.
RECURSIVE PlayingLoop(_, _, _, _, _)
PlayingLoop(cp, a, track_ids, start_beat, end_beat) ==
    IF track_ids = <<>> THEN cp
    ELSE LET track_id == Head(track_ids)
             playing_clip == cp.playing[track_id]
             skip == \/ playing_clip.clip_id \notin DOMAIN a.clips
                     \/ playing_clip.track_id \notin DOMAIN a.tracks
                     \/ ~Arrangement_is_track_audible(a, playing_clip.track_id)
                     \/ a.tracks[playing_clip.track_id].target_node = None
             clip == a.clips[playing_clip.clip_id]
             generated ==
                 ClipPlayback_generate_clip_events_inline(cp, track_id,
                     playing_clip.clip_id, playing_clip.clip_position, clip,
                     a.tracks[playing_clip.track_id].target_node, start_beat,
                     end_beat)
             advanced == playing_clip.clip_position + (end_beat - start_beat)
             clip_position ==
                 IF clip.looping /\ advanced >= clip.length
                   THEN advanced % clip.length ELSE advanced
         IN PlayingLoop(
                IF skip THEN cp
                ELSE [generated EXCEPT !.playing[track_id].clip_position = clip_position],
                a, Tail(track_ids), start_beat, end_beat)

ClipPlayback_generate_events(cp, a, start_beat, end_beat) ==
    ClipPlayback_generate_note_offs(
        PlayingLoop([cp EXCEPT !.event_buffer = <<>>], a,
                    Ascending(DOMAIN cp.playing), start_beat, end_beat),
        start_beat, end_beat)

\* generate_stop_events returns a note-off at current_beat for every active
\* note and clears the list; the events are returned, not put in
\* event_buffer.
ClipPlayback_generate_stop_events(cp, current_beat) ==
    [clip_playback |-> [cp EXCEPT !.active_notes = <<>>],
     events |-> [i \in DOMAIN cp.active_notes |->
                    NoteOffTarget(current_beat, cp.active_notes[i].key.target_node,
                                  cp.active_notes[i].key.note)]]

\* ------------------------------------------------------------------------
\* The allocator's operations as actions. last_op records the call just
\* made; note_on_order lists the slots that ever had a note_on, the one
\* whose most recent note_on is earliest first.
\* ------------------------------------------------------------------------
NoOp == [op |-> "new", note |-> 0, ret |-> None, pre_active |-> 0,
         oldest |-> None]

\* The active slot whose most recent note_on happened earliest.
OldestActive(vs, order) ==
    LET act == SelectSeqBy(order, {i \in DOMAIN vs : vs[i].active})
    IN  IF act = <<>> THEN None ELSE Head(act)

graphvars == <<nodes, eval_order, voices_to_deactivate, verdicts>>

NoteOn(note, velocity) ==
    /\ voices' = VoiceAllocator_note_on(voices, note, velocity)
    /\ last_op' = [op |-> "note_on", note |-> note,
                   ret |-> VoiceAllocator_note_on_ret(voices),
                   pre_active |-> VoiceAllocator_active_count(voices),
                   oldest |-> OldestActive(voices, note_on_order),
                   pre_release |-> /\ NoteOnSlot(voices) # None
                                   /\ voices[NoteOnSlot(voices)].release]
    /\ note_on_order' = OrderAfterNoteOn(voices, note_on_order)
    /\ UNCHANGED <<cvars, max_voices, graphvars, svars, hvars>>

NoteOff(note) ==
    /\ voices' = VoiceAllocator_note_off(voices, note)
    /\ last_op' = [op |-> "note_off", note |-> note, ret |-> None,
                   pre_active |-> VoiceAllocator_active_count(voices),
                   oldest |-> OldestActive(voices, note_on_order)]
    /\ UNCHANGED <<cvars, max_voices, note_on_order, graphvars, svars, hvars>>

Deactivate(voice_id) ==
    /\ voices' = VoiceAllocator_deactivate(voices, voice_id)
    /\ last_op' = [op |-> "deactivate", note |-> voice_id, ret |-> None,
                   pre_active |-> VoiceAllocator_active_count(voices),
                   oldest |-> OldestActive(voices, note_on_order)]
    /\ UNCHANGED <<cvars, max_voices, note_on_order, graphvars, svars, hvars>>

ClearTriggers ==
    /\ voices' = VoiceAllocator_clear_triggers(voices)
    /\ last_op' = [op |-> "clear_triggers", note |-> 0, ret |-> None,
                   pre_active |-> VoiceAllocator_active_count(voices),
                   oldest |-> OldestActive(voices, note_on_order)]
    /\ UNCHANGED <<cvars, max_voices, note_on_order, graphvars, svars, hvars>>

\* What the DSP nodes may return in one Graph.process: a per-voice node
\* returns one flag for each active voice, a global node one flag (index -1).
Instances(idx) ==
    IF nodes[idx].per_voice THEN Range(VoiceAllocator_active_voices(voices))
    ELSE {-1}

RECURSIVE ReturnsFrom(_)
ReturnsFrom(idx) ==
    IF idx \notin DOMAIN nodes THEN {<<>>}
    ELSE {<<h>> \o t : h \in [Instances(idx) -> BOOLEAN],
                       t \in ReturnsFrom(idx + 1)}

Returns == {[idx \in DOMAIN nodes |-> r[idx + 1]] : r \in ReturnsFrom(0)}

GraphProcess(ret) ==
    LET g == Graph_process(nodes, eval_order, voices, ret) IN
    /\ nodes' = g.nodes
    /\ voices_to_deactivate' = g.vtd
    /\ verdicts' = g.calls
    /\ last_op' = [op |-> "process", note |-> 0, ret |-> None,
                   pre_active |-> VoiceAllocator_active_count(voices),
                   oldest |-> OldestActive(voices, note_on_order)]
    /\ node_state' = Touched(node_state, g.calls)
    /\ UNCHANGED <<id_to_index, fvars, lvars, bvars, dvars, ivars>>
    /\ UNCHANGED <<max_voices, voices, note_on_order, eval_order, svars, hvars, pvars>>

\* ---- the allocator alone -------------------------------------------------
NoGraph == <<>>

NoCall == [block_frames |-> 0, musical_events |-> <<>>,
           transport |-> MusicalTransport_new]

NothingSeen == [block_start_sample |-> None, slices |-> <<>>]

NoCompile == [def |-> GraphDef_new, result |-> [ok |-> TRUE, graph |-> Graph_new]]

NoBlock == [plan |-> ExecutionPlan_new, ret |-> <<>>]

\* Scheduler::new, PlanHandoff::new and the Engine's own fields after
\* Engine::new.
InitScheduler ==
    /\ sample_pos = 0
    /\ applied = <<>>
    /\ musical_transport = MusicalTransport_new
    /\ plans = [i \in 0..1 |-> ExecutionPlan_new]
    /\ read_index = 0
    /\ last_call = NoCall
    /\ n_published = 0
    /\ published = ExecutionPlan_new
    /\ observed = ExecutionPlan_new
    /\ observed_at = 0
    /\ w_pc = "idle"
    /\ w_write = 0
    /\ w_next = ExecutionPlan_new
    /\ r_pc = "idle"
    /\ r_index = 0
    /\ r_seen = NothingSeen
    /\ whole_plans = {ExecutionPlan_new}
    /\ node_state = NewNodeState(nodes, max_voices)
    /\ id_to_index = <<>>
    /\ playing = FALSE
    /\ engine_bpm = 120
    /\ finished = {}
    /\ quiet = FALSE
    /\ command_queue = <<>>
    /\ sent_log = <<>>
    /\ applied_log = <<>>
    /\ a_pc = "idle"
    /\ needs_recompile = FALSE
    /\ pc_called_at = 0
    /\ pc_drained = <<>>
    /\ pc_returned = <<>>
    /\ last_compile = NoCompile
    /\ installed_def = GraphDef_new
    /\ ever_installed = {}
    /\ last_block = NoBlock
    /\ session = Session_new
    /\ s_pc = "idle"
    /\ s_cmd = NoCommand
    /\ issued = <<>>
    /\ arrangement = Arrangement_new
    /\ clip_playback = ClipPlayback_new
    /\ cp_window = 0
    /\ cp_beat = 0
    /\ sounding = [k \in NoteKeys |-> 0]

InitVoices ==
    /\ max_voices \in 0..MaxVoices
    /\ voices = VoiceAllocator_new(max_voices)
    /\ last_op = NoOp
    /\ note_on_order = <<>>
    /\ nodes = NoGraph
    /\ eval_order = <<>>
    /\ voices_to_deactivate = <<>>
    /\ verdicts = <<>>
    /\ InitScheduler

NextVoices ==
    \/ \E note \in Notes, velocity \in Velocities : NoteOn(note, velocity)
    \/ \E note \in Notes : NoteOff(note)
    \/ \E voice_id \in 0..max_voices : Deactivate(voice_id)
    \/ ClearTriggers

SpecVoices == InitVoices /\ [][NextVoices]_vars

\* ---- a prepared graph processed against the allocator ---------------------
\* Graphs of up to MaxNodes nodes, each global or per-voice, each fed by the
\* node added just before it or by nothing.
Graphs ==
    UNION {
        {[i \in 0..(n - 1) |->
             GraphNode(pv[i], IF i > 0 /\ fed[i] THEN <<i - 1>> ELSE <<>>)] :
         pv \in [0..(n - 1) -> BOOLEAN], fed \in [0..(n - 1) -> BOOLEAN]}
        : n \in 0..MaxNodes}

InitGraph ==
    /\ max_voices \in 0..MaxVoices
    /\ voices = VoiceAllocator_new(max_voices)
    /\ last_op = NoOp
    /\ note_on_order = <<>>
    /\ nodes \in Graphs
    /\ eval_order = Graph_topological_sort(nodes)
    /\ voices_to_deactivate = <<>>
    /\ verdicts = NoCalls(nodes)
    /\ InitScheduler

NextGraph ==
    \/ \E note \in {60}, velocity \in Velocities : NoteOn(note, velocity)
    \/ \E voice_id \in 0..max_voices : Deactivate(voice_id)
    \/ \E ret \in Returns : GraphProcess(ret)

SpecGraph == InitGraph /\ [][NextGraph]_vars

\* ---- scheduler, handoff and engine, used one after the other ---------------
\* The musical events a caller may pass: each body at a beat a few ticks
\* before or after the current beat position.
EventBodies ==
    {[kind |-> "NoteOn", note |-> 60, velocity |-> 1],
     [kind |-> "NoteOffTarget", node_id |-> 1, note |-> 60]}

BeatDeltas == (-1)..2

MusicalEvents ==
    {[beat |-> musical_transport.beat_pos + d] @@ body :
        d \in BeatDeltas, body \in EventBodies}

EventLists == UNION {[1..n -> MusicalEvents] : n \in 0..MaxEvents}

CompileBlock(block_frames, musical_events) ==
    LET write == PlanHandoff_write_index(read_index)
        plan  == Scheduler_compile_block(musical_transport, block_frames,
                                         musical_events)
    IN  /\ n_published < MaxBlocks
        /\ plans' = [plans EXCEPT ![write] = plan]
        /\ musical_transport' =
              MusicalTransport_advance_samples(musical_transport, block_frames)
        /\ read_index' = PlanHandoff_publish(read_index)
        /\ last_call' = [block_frames |-> block_frames,
                         musical_events |-> musical_events,
                         transport |-> musical_transport]
        /\ n_published' = n_published + 1
        /\ published' = plan
        /\ UNCHANGED <<cvars, sample_pos, applied, observed, observed_at, evars, hvars>>

\* A tempo change shows in the next compile_block only.
SetBpm(bpm) ==
    /\ n_published < MaxBlocks
    /\ musical_transport' = MusicalTransport_set_bpm(musical_transport, bpm)
    /\ UNCHANGED <<cvars, sample_pos, applied, plans, read_index, last_call,
                   n_published, published, observed, observed_at, evars, hvars>>

\* What the nodes may return in each Graph.process of one process_plan.
FullReturns == [DOMAIN nodes -> [(-1)..(max_voices - 1) -> BOOLEAN]]

\* The audio callback once a plan has been published since the last one:
\* read_plan, then process_plan on the plan it returned.
ProcessPlan ==
    LET plan == PlanHandoff_read_plan(plans, read_index) IN
    /\ observed_at < n_published
    /\ \E rets \in [1..Len(plan.slices) -> FullReturns] :
        LET st == Engine_process_plan(
                      [sample_pos |-> sample_pos, voices |-> voices,
                       nodes |-> nodes, vtd |-> voices_to_deactivate,
                       calls |-> verdicts, order |-> note_on_order,
                       applied |-> applied, node_state |-> node_state,
                       id_to_index |-> id_to_index],
                      plan, eval_order, rets)
        IN  /\ observed' = plan
            /\ observed_at' = n_published
            /\ sample_pos' = st.sample_pos
            /\ applied' = st.applied
            /\ voices' = st.voices
            /\ nodes' = st.nodes
            /\ voices_to_deactivate' = st.vtd
            /\ verdicts' = st.calls
            /\ note_on_order' = st.order
            /\ last_op' = [op |-> "process_plan", note |-> 0, ret |-> None,
                           pre_active |-> VoiceAllocator_active_count(voices),
                           oldest |-> OldestActive(voices, note_on_order),
                           plan |-> plan, trace |-> st.trace]
            /\ node_state' = st.node_state
            /\ UNCHANGED <<id_to_index, fvars, lvars, bvars, dvars, ivars>>
            /\ UNCHANGED <<max_voices, eval_order, musical_transport, plans,
                           read_index, last_call, n_published, published,
                           hvars, pvars>>

Init ==
    /\ max_voices = MaxVoices
    /\ voices = VoiceAllocator_new(max_voices)
    /\ last_op = NoOp
    /\ note_on_order = <<>>
    /\ nodes = NoGraph
    /\ eval_order = <<>>
    /\ voices_to_deactivate = <<>>
    /\ verdicts = <<>>
    /\ InitScheduler

Next ==
    \/ \E block_frames \in 0..MaxFrames, musical_events \in EventLists :
          CompileBlock(block_frames, musical_events)
    \/ \E bpm \in BpmChoices : SetBpm(bpm)
    \/ ProcessPlan

Spec == Init /\ [][Next]_vars

\* ---- the engine on a graph with per-voice nodes: the voice lifecycle -------
\* Engine::process_plan on a plan the Scheduler compiled for a first block,
\* with notes started and released by events of the plan or by commands.
LifecycleGraphs == {g \in Graphs : g # <<>> /\ Cardinality(DOMAIN g) <= 2}

LifecycleEvents ==
    {<<>>,
     <<[beat |-> 0, kind |-> "NoteOn", note |-> 60, velocity |-> 1]>>,
     <<[beat |-> 0, kind |-> "NoteOff", note |-> 60]>>,
     <<[beat |-> 1, kind |-> "NoteOff", note |-> 60]>>}

LifecyclePlans ==
    {Scheduler_compile_block(MusicalTransport_new, block_frames, evs) :
        block_frames \in 1..MaxFrames, evs \in LifecycleEvents}

StartsNote(plan) ==
    \E k \in DOMAIN plan.slices : \E j \in DOMAIN plan.slices[k].events :
        plan.slices[k].events[j].kind \in {"NoteOn", "NoteOnTarget"}

\* What the nodes return in each Graph.process of one process_plan: a global
\* node is never silent, a per-voice node answers voice by voice.
LifecycleReturns ==
    {[idx \in DOMAIN nodes |->
         [v \in (-1)..(max_voices - 1) |->
             v >= 0 /\ nodes[idx].per_voice /\ f[idx][v]]] :
     f \in [DOMAIN nodes -> [0..(max_voices - 1) -> BOOLEAN]]}

QuietReturns ==
    {[idx \in DOMAIN nodes |->
         [v \in (-1)..(max_voices - 1) |-> v >= 0 /\ nodes[idx].per_voice]]}

\* Engine::process_plan on the plan given, every Graph.process of the block
\* getting the returns ret.
ProcessPlanOn(plan, ret) ==
    \E st \in {Engine_process_plan(
                  [sample_pos |-> sample_pos, voices |-> voices,
                   nodes |-> nodes, vtd |-> voices_to_deactivate,
                   calls |-> verdicts, order |-> note_on_order,
                   applied |-> applied, node_state |-> node_state,
                   id_to_index |-> id_to_index],
                  plan, eval_order, [k \in DOMAIN plan.slices |-> ret])} :
        /\ sample_pos' = st.sample_pos
        /\ applied' = st.applied
        /\ voices' = st.voices
        /\ nodes' = st.nodes
        /\ voices_to_deactivate' = st.vtd
        /\ verdicts' = st.calls
        /\ note_on_order' = st.order
        /\ node_state' = st.node_state
        /\ finished' = Range(st.vtd)
        /\ last_op' = [op |-> "process_plan", note |-> 0, ret |-> None,
                       pre_active |-> VoiceAllocator_active_count(voices),
                       oldest |-> OldestActive(voices, note_on_order),
                       plan |-> plan, trace |-> st.trace]
        /\ UNCHANGED <<max_voices, eval_order, musical_transport, plans,
                       read_index, last_call, n_published, published,
                       observed, observed_at, hvars, pvars, id_to_index, fvars, quiet,
                       bvars, dvars>>

\* A block while notes may still start and nodes may still sound.
Block(plan, ret) ==
    /\ ~quiet
    /\ ProcessPlanOn(plan, ret)
    /\ UNCHANGED ivars

\* From here on no note is started and every per-voice node returns silent
\* for every voice; every voice still active has been released.
GoQuiet ==
    /\ ~quiet
    /\ \A v \in DOMAIN voices : voices[v].active => ~voices[v].gate
    /\ quiet' = TRUE
    /\ UNCHANGED <<evars, svars, hvars, pvars, gvars, fvars, finished, bvars, dvars, ivars>>

QuietBlock(plan) ==
    /\ quiet
    /\ ~StartsNote(plan)
    /\ \E ret \in QuietReturns : ProcessPlanOn(plan, ret)
    /\ UNCHANGED ivars

InitLifecycle ==
    /\ max_voices \in 1..MaxVoices
    /\ voices = VoiceAllocator_new(max_voices)
    /\ last_op = NoOp
    /\ note_on_order = <<>>
    /\ nodes \in LifecycleGraphs
    /\ eval_order = Graph_topological_sort(nodes)
    /\ voices_to_deactivate = <<>>
    /\ verdicts = NoCalls(nodes)
    /\ InitScheduler

NextLifecycle ==
    \/ \E velocity \in Velocities : ~quiet /\ NoteOn(60, velocity)
    \/ NoteOff(60)
    \/ \E plan \in LifecyclePlans, ret \in LifecycleReturns : Block(plan, ret)
    \/ GoQuiet
    \/ \E plan \in LifecyclePlans : QuietBlock(plan)

SpecLifecycle == InitLifecycle /\ [][NextLifecycle]_vars

\* The audio device keeps calling the audio callback, so blocks keep being
\* processed.
SpecLifecycleFair ==
    SpecLifecycle /\ WF_vars(\E plan \in LifecyclePlans : QuietBlock(plan))

\* ---- compile alone --------------------------------------------------------
\* Type 1 has a Global factory, type 2 a PerVoice factory, type 9 none.
Registry == (1 :> "Global") @@ (2 :> "PerVoice")

TypeIds == {1, 2, 9}

\* NodeIds a GraphDef holds, and one more that connections may name.
DefNodeIds == {1, 2}
ConnNodeIds == {1, 2, 3}

NodeDefs == {NodeDef(t, pv) : t \in TypeIds, pv \in {<<>>, (0 :> 1)}}

\* Port 0 or 1 of the source, port 0 of the destination.
ConnectionDefs ==
    {ConnectionDef(a, p, b, 0) : a \in ConnNodeIds, p \in {0, 1}, b \in ConnNodeIds}

ConnectionLists ==
    {<<>>} \cup {<<c>> : c \in ConnectionDefs}
           \cup {<<c, d>> : c \in ConnectionDefs, d \in ConnectionDefs}

CompileDefs ==
    {[nodes |-> ns, connections |-> cs, output_node |-> out, next_id |-> 3] :
        ns \in {<<>>} \cup UNION {[ids -> NodeDefs] : ids \in SUBSET DefNodeIds \ {{}}},
        cs \in ConnectionLists,
        out \in {None, 1, 3}}

\* One call of compile.
CallCompile(def) ==
    /\ last_compile' = [def |-> def, result |-> compile(def, Registry, max_voices)]
    /\ last_op' = [op |-> "compile", note |-> 0, ret |-> None,
                   pre_active |-> VoiceAllocator_active_count(voices),
                   oldest |-> OldestActive(voices, note_on_order)]
    /\ UNCHANGED <<max_voices, voices, note_on_order, nodes, eval_order,
                   voices_to_deactivate, verdicts, svars, hvars, pvars, gvars, fvars,
                   lvars, bvars, dvars, installed_def, ever_installed, last_block>>

InitInstall ==
    /\ max_voices \in 1..MaxVoices
    /\ voices = VoiceAllocator_new(max_voices)
    /\ last_op = NoOp
    /\ note_on_order = <<>>
    /\ nodes = NoGraph
    /\ eval_order = <<>>
    /\ voices_to_deactivate = <<>>
    /\ verdicts = <<>>
    /\ InitScheduler

\* compile is a function of its arguments: one call from the state after
\* construction shows all it can return.
NextCompile ==
    \E def \in (IF last_compile = NoCompile THEN CompileDefs ELSE {}) :
        CallCompile(def)

SpecCompile == InitInstall /\ [][NextCompile]_vars

\* ---- the bridge: SessionHandle sends, EngineHandle drains -----------------
\* The editor thread sends commands while the audio thread is in
\* process_commands; a send and a try_recv are each one step of the channel.
EngineCommands == {"SetParam", "Play", "Stop", "SetTempo", "Seek", "NoteOn", "NoteOff"}

Command(kind) ==
    CASE kind = "SetParam" -> [kind |-> kind, node_id |-> 0, param_id |-> 0, value |-> 1]
      [] kind = "SetTempo" -> [kind |-> kind, bpm |-> 60]
      [] kind = "Seek" -> [kind |-> kind, beat |-> 0]
      [] kind = "NoteOn" -> [kind |-> kind, note |-> 60, velocity |-> 1]
      [] kind = "NoteOff" -> [kind |-> kind, note |-> 60]
      [] kind = "AddNode" -> [kind |-> kind, type_id |-> 1]
      [] kind = "AddNodeDef" -> [kind |-> kind, node |-> NodeDef(2, <<>>)]
      [] kind \in {"RemoveNode", "SetOutputNode"} -> [kind |-> kind, node_id |-> 0]
      [] kind \in {"Connect", "Disconnect"} ->
            [kind |-> kind, source_node |-> 0, source_port |-> 0,
             dest_node |-> 1, dest_port |-> 0]
      [] kind = "LoadConnections" ->
            [kind |-> kind, connections |-> <<ConnectionDef(0, 0, 1, 0)>>]
      [] OTHER -> [kind |-> kind]

AllCommands ==
    {Command(kind) :
        kind \in EngineCommands \cup GraphStructureCommands \cup SessionOnlyCommands}

EngineNow ==
    [voices |-> voices, order |-> note_on_order, nodes |-> nodes,
     node_state |-> node_state, id_to_index |-> id_to_index,
     playing |-> playing, engine_bpm |-> engine_bpm]

\* mpsc: Sender::send puts the command behind those waiting, try_recv takes
\* the one waiting longest.
Channel_send(queue, cmd) == Append(queue, cmd)

Channel_try_recv_newest(queue) ==
    [cmd |-> queue[Len(queue)], rest |-> SubSeq(queue, 1, Len(queue) - 1)]

Channel_try_recv(queue) == [cmd |-> Head(queue), rest |-> Tail(queue)]

\* SessionHandle::send.
Send(cmd) ==
    /\ Len(sent_log) < MaxSent
    /\ session' = SessionHandle_apply_to_session(session, cmd)
    /\ issued' = IssuedAfter(issued, session, cmd)
    /\ command_queue' = Channel_send(command_queue, cmd)
    /\ sent_log' = Append(sent_log, cmd)
    /\ UNCHANGED <<evars, svars, hvars, pvars, gvars, fvars, lvars, ivars, s_pc, s_cmd,
                   applied_log, a_pc,
                   needs_recompile, pc_called_at, pc_drained, pc_returned>>

\* EngineHandle::process_commands is entered.
ProcessCommandsBegin ==
    /\ a_pc = "idle"
    /\ a_pc' = "draining"
    /\ needs_recompile' = FALSE
    /\ pc_called_at' = Len(sent_log)
    /\ pc_drained' = <<>>
    /\ pc_returned' = <<>>
    /\ UNCHANGED <<evars, svars, hvars, pvars, gvars, fvars, lvars, ivars, dvars,
                   command_queue,
                   sent_log, applied_log>>

\* try_recv returned a command: process_command runs on it.
ProcessCommandsRecv ==
    /\ a_pc = "draining"
    /\ command_queue # <<>>
    /\ \E got \in {Channel_try_recv(command_queue)} :
       \E en \in {Engine_process_command(EngineNow, got.cmd)} :
          /\ command_queue' = got.rest
          /\ voices' = en.voices
          /\ note_on_order' = en.order
          /\ nodes' = en.nodes
          /\ node_state' = en.node_state
          /\ playing' = en.playing
          /\ engine_bpm' = en.engine_bpm
          /\ needs_recompile' =
                (needs_recompile \/ ~Engine_process_command_ret(got.cmd.kind))
          /\ applied_log' = Append(applied_log, got.cmd)
          /\ pc_drained' =
                Append(pc_drained,
                       [cmd |-> got.cmd,
                        ret |-> Engine_process_command_ret(got.cmd.kind)])
          /\ last_op' = [op |-> "process_command", note |-> 0, ret |-> None,
                         pre_active |-> VoiceAllocator_active_count(voices),
                         oldest |-> OldestActive(voices, note_on_order)]
    /\ UNCHANGED <<max_voices, eval_order, voices_to_deactivate, verdicts,
                   svars, hvars, pvars, id_to_index, lvars, ivars, dvars, sent_log, a_pc,
                   pc_called_at, pc_returned>>

\* try_recv found the channel empty: process_commands returns its flag.
ProcessCommandsReturn ==
    /\ a_pc = "draining"
    /\ command_queue = <<>>
    /\ a_pc' = "idle"
    /\ pc_returned' = <<needs_recompile>>
    /\ UNCHANGED <<evars, svars, hvars, pvars, gvars, fvars, lvars, ivars, dvars,
                   command_queue,
                   sent_log, applied_log, needs_recompile, pc_called_at,
                   pc_drained>>

NextBridge ==
    \/ \E cmd \in AllCommands : Send(cmd)
    \/ ProcessCommandsBegin
    \/ ProcessCommandsRecv
    \/ ProcessCommandsReturn

SpecBridge == Init /\ [][NextBridge]_vars

\* ---- recompiling while the engine runs -----------------------------------
\* Graph::prepare on a compiled graph: the evaluation order is computed and
\* every silent flag cleared. A graph is installed with an empty
\* voices_to_deactivate list.
Graph_prepare(g) ==
    [nodes |-> Graph_reset_nodes(g.nodes), node_state |-> g.node_state,
     id_to_index |-> g.id_to_index,
     eval_order |-> Graph_topological_sort(g.nodes), vtd |-> <<>>]

\* swap_graph that keeps the evaluation order of the graph it replaces.
Engine_swap_graph_keeps_eval_order(graph, new_graph) ==
    [new_graph EXCEPT !.eval_order = graph.eval_order]

\* Engine::swap_graph: self.graph = new_graph.
Engine_swap_graph(graph, new_graph) == new_graph

\* The recompile path: compile, then prepare and swap_graph on Ok.
engine_compile_graph_swaps_on_error(graph, result) ==
    IF result.ok THEN Engine_swap_graph(graph, Graph_prepare(result.graph))
    ELSE Engine_swap_graph(graph, Graph_prepare(Graph_new))

engine_compile_graph(graph, result) ==
    IF result.ok THEN Engine_swap_graph(graph, Graph_prepare(result.graph))
    ELSE graph

GraphNow ==
    [nodes |-> nodes, node_state |-> node_state, id_to_index |-> id_to_index,
     eval_order |-> eval_order, vtd |-> voices_to_deactivate]

\* GraphDefs the session may hold when the graph is recompiled: some compile,
\* one has a node of an unregistered type, one a dangling connection.
InstallDefs ==
    {GraphDef_new,
     [nodes |-> (1 :> NodeDef(1, <<>>)), connections |-> <<>>,
      output_node |-> None, next_id |-> 3],
     [nodes |-> (1 :> NodeDef(2, <<>>)) @@ (2 :> NodeDef(1, <<>>)),
      connections |-> <<ConnectionDef(1, 0, 2, 0)>>, output_node |-> 2,
      next_id |-> 3],
     [nodes |-> (2 :> NodeDef(1, (0 :> 1))), connections |-> <<>>,
      output_node |-> None, next_id |-> 3],
     [nodes |-> (1 :> NodeDef(9, <<>>)), connections |-> <<>>,
      output_node |-> None, next_id |-> 3],
     [nodes |-> (1 :> NodeDef(1, <<>>)),
      connections |-> <<ConnectionDef(1, 0, 3, 0)>>, output_node |-> None, next_id |-> 3]}

Recompile(def) ==
    \E result \in {compile(def, Registry, max_voices)} :
    \E g \in {engine_compile_graph(GraphNow, result)} :
        /\ last_compile' = [def |-> def, result |-> result]
        /\ nodes' = g.nodes
        /\ node_state' = g.node_state
        /\ id_to_index' = g.id_to_index
        /\ eval_order' = g.eval_order
        /\ voices_to_deactivate' = g.vtd
        /\ verdicts' = IF result.ok THEN NoCalls(g.nodes) ELSE verdicts
        /\ installed_def' = IF result.ok THEN def ELSE installed_def
        /\ ever_installed' =
              IF result.ok THEN ever_installed \cup DOMAIN def.nodes
              ELSE ever_installed
        /\ last_op' = [op |-> "recompile", note |-> 0, ret |-> None,
                       pre_active |-> VoiceAllocator_active_count(voices),
                       oldest |-> OldestActive(voices, note_on_order)]
        /\ UNCHANGED <<max_voices, voices, note_on_order, svars, hvars, pvars, fvars,
                       lvars, bvars, dvars, last_block>>

InstallCommands ==
    {[kind |-> "SetParam", node_id |-> n, param_id |-> 0, value |-> 1] : n \in {0, 1}}
    \cup {[kind |-> "Play"], [kind |-> "Stop"],
          [kind |-> "NoteOn", note |-> 60, velocity |-> 1]}

\* Engine::process_command called with cmd.
ProcessCommand(cmd) ==
    \E en \in {Engine_process_command(EngineNow, cmd)} :
        /\ voices' = en.voices
        /\ note_on_order' = en.order
        /\ nodes' = en.nodes
        /\ node_state' = en.node_state
        /\ playing' = en.playing
        /\ engine_bpm' = en.engine_bpm
        /\ last_op' = [op |-> "process_command", note |-> 0,
                       ret |-> Engine_process_command_ret(cmd.kind),
                       pre_active |-> VoiceAllocator_active_count(voices),
                       oldest |-> OldestActive(voices, note_on_order),
                       cmd |-> cmd]
        /\ UNCHANGED <<max_voices, eval_order, voices_to_deactivate, verdicts,
                       svars, hvars, pvars, id_to_index, lvars, bvars, dvars, ivars>>

InstallEvents ==
    {<<>>,
     <<[beat |-> 0, kind |-> "ParamChange", node_id |-> 1, param_id |-> 0,
        value |-> 1]>>,
     <<[beat |-> 0, kind |-> "AudioStart", node_id |-> 2, audio_id |-> 7,
        start_sample |-> 0, duration_samples |-> 1, gain |-> 1]>>,
     <<[beat |-> 0, kind |-> "AudioStop", node_id |-> 2, audio_id |-> 7]>>}

InstallPlans ==
    {Scheduler_compile_block(MusicalTransport_new, 1, evs) : evs \in InstallEvents}

\* In a block every per-voice node is silent for every voice, or no node is
\* silent at all.
InstallReturns ==
    QuietReturns \cup
    {[idx \in DOMAIN nodes |-> [v \in (-1)..(max_voices - 1) |-> FALSE]]}

\* One audio block on the installed graph.
InstallBlock(plan, ret) ==
    /\ ProcessPlanOn(plan, ret)
    /\ last_block' = [plan |-> plan, ret |-> ret]
    /\ UNCHANGED <<last_compile, installed_def, ever_installed>>

NextInstall ==
    \/ \E def \in InstallDefs : Recompile(def)
    \/ \E cmd \in InstallCommands : ProcessCommand(cmd)
    \/ \E plan \in InstallPlans, ret \in InstallReturns : InstallBlock(plan, ret)

SpecInstall == InitInstall /\ [][NextInstall]_vars

\* ---- prepare on a graph wired by connect ---------------------------------
\* The input lists Graph::connect can build over the indices S: each index at
\* most once, in any order.
RECURSIVE Arrangements(_)
Arrangements(S) ==
    {<<>>} \cup UNION {{<<x>> \o a : a \in Arrangements(S \ {x})} : x \in S}

\* Graphs of up to MaxNodes global nodes wired by any calls of connect, loops
\* and cycles included.
WiredGraphs ==
    UNION {{[i \in 0..(n - 1) |-> GraphNode(FALSE, ins[i])] :
               ins \in [0..(n - 1) -> Arrangements(0..(n - 1))]}
           : n \in 0..MaxNodes}

\* Graph::prepare on the engine's graph. On a cycle topological_sort runs
\* debug_assert!(false): a build with debug assertions panics there, before
\* eval_order is assigned and before any node is prepared; a build without
\* them goes on and appends the unprocessed nodes.
Prepare ==
    \E debug_assertions \in BOOLEAN :
    \E panicked \in {debug_assertions /\ Graph_has_cycle(nodes)} :
    \E g \in {IF panicked THEN GraphNow ELSE Graph_prepare(GraphNow)} :
        /\ nodes' = g.nodes
        /\ eval_order' = g.eval_order
        /\ node_state' = g.node_state
        /\ last_op' = [op |-> "prepare", note |-> 0, ret |-> None,
                       pre_active |-> VoiceAllocator_active_count(voices),
                       oldest |-> OldestActive(voices, note_on_order),
                       panicked |-> panicked]
        /\ UNCHANGED <<max_voices, voices, note_on_order, voices_to_deactivate,
                       verdicts, svars, hvars, pvars, id_to_index, fvars, lvars, bvars, dvars,
                       ivars>>

InitPrepare ==
    /\ max_voices = 1
    /\ voices = VoiceAllocator_new(max_voices)
    /\ last_op = NoOp
    /\ note_on_order = <<>>
    /\ nodes \in WiredGraphs
    /\ eval_order = <<>>
    /\ voices_to_deactivate = <<>>
    /\ verdicts = NoCalls(nodes)
    /\ InitScheduler

NextPrepare == Prepare

SpecPrepare == InitPrepare /\ [][NextPrepare]_vars

\* ---- connect on the runtime graph and on the session's GraphDef -----------
\* Graph::connect(src, dst) on the engine's graph.
GraphConnect(src, dst) ==
    /\ nodes' = Graph_connect(nodes, src, dst)
    /\ last_op' = [op |-> "connect", note |-> 0, ret |-> None,
                   pre_active |-> VoiceAllocator_active_count(voices),
                   oldest |-> OldestActive(voices, note_on_order),
                   src |-> src, dst |-> dst,
                   present |-> src \in Range(nodes[dst].inputs)]
    /\ UNCHANGED <<max_voices, voices, note_on_order, eval_order,
                   voices_to_deactivate, verdicts, svars, hvars, pvars, gvars, fvars,
                   lvars, bvars, ivars, dvars>>

\* GraphDef::connect on the session's graph; the list is kept to MaxConns
\* connections.
DefConnect(source_node, source_port, dest_node, dest_port) ==
    LET conn == ConnectionDef(source_node, source_port, dest_node, dest_port)
    IN  /\ \/ conn \in Range(session.graph.connections)
           \/ Len(session.graph.connections) < MaxConns
        /\ session' = [session EXCEPT !.graph =
              GraphDef_connect(@, source_node, source_port, dest_node, dest_port)]
        /\ last_op' = [op |-> "def_connect", note |-> 0, ret |-> None,
                       pre_active |-> VoiceAllocator_active_count(voices),
                       oldest |-> OldestActive(voices, note_on_order),
                       conn |-> conn,
                       present |-> conn \in Range(session.graph.connections)]
        /\ UNCHANGED <<max_voices, voices, note_on_order, nodes, eval_order,
                       voices_to_deactivate, verdicts, svars, hvars, pvars, gvars,
                       fvars, lvars, bvars, ivars, s_pc, s_cmd, issued>>

\* One or two nodes added and not yet connected.
InitWire ==
    /\ max_voices = 1
    /\ voices = VoiceAllocator_new(max_voices)
    /\ last_op = NoOp
    /\ note_on_order = <<>>
    /\ nodes \in {[i \in 0..(n - 1) |-> GraphNode(FALSE, <<>>)] : n \in 1..2}
    /\ eval_order = <<>>
    /\ voices_to_deactivate = <<>>
    /\ verdicts = NoCalls(nodes)
    /\ InitScheduler

NextWire ==
    \/ \E src \in DOMAIN nodes, dst \in DOMAIN nodes : GraphConnect(src, dst)
    \/ \E a \in 0..1, p \in 0..1, b \in 0..1 : DefConnect(a, p, b, 0)

SpecWire == InitWire /\ [][NextWire]_vars

\* ---- the editor edits the session through send ---------------------------
\* SessionHandle::send is two steps of the editor thread: apply_to_session,
\* then Sender::send, which makes the command visible to the audio thread.
EditCommands ==
    {[kind |-> "AddNode", type_id |-> 1],
     [kind |-> "ClearGraph"],
     [kind |-> "SetTempo", bpm |-> 60],
     [kind |-> "Seek", beat |-> 1],
     [kind |-> "LoadConnections", connections |-> <<ConnectionDef(0, 0, 1, 0)>>],
     [kind |-> "CreateClip", length |-> 4]}
    \cup {[kind |-> "RemoveNode", node_id |-> n] : n \in 0..1}
    \cup {[kind |-> k, source_node |-> a, source_port |-> 0, dest_node |-> b,
           dest_port |-> 0] : k \in {"Connect", "Disconnect"}, a \in 0..1, b \in 0..1}

SendApply(cmd) ==
    /\ s_pc = "idle"
    /\ Len(sent_log) < MaxEdits
    /\ session' = SessionHandle_apply_to_session(session, cmd)
    /\ issued' = IssuedAfter(issued, session, cmd)
    /\ s_cmd' = cmd
    /\ s_pc' = "applied"
    /\ UNCHANGED <<evars, svars, hvars, pvars, gvars, fvars, lvars, bvars, ivars>>

SendEnqueue ==
    /\ s_pc = "applied"
    /\ command_queue' = Channel_send(command_queue, s_cmd)
    /\ sent_log' = Append(sent_log, s_cmd)
    /\ s_pc' = "idle"
    /\ UNCHANGED <<evars, svars, hvars, pvars, gvars, fvars, lvars, ivars, session,
                   s_cmd, issued, applied_log, a_pc, needs_recompile,
                   pc_called_at, pc_drained, pc_returned>>

NextEdit ==
    \/ \E cmd \in EditCommands : SendApply(cmd)
    \/ SendEnqueue

SpecEdit == Init /\ [][NextEdit]_vars

\* ---- the Scheduler and the audio thread running concurrently ---------------
\* compile_block writes the slot field by field and publishes; the audio
\* callback loads the index and then reads the slot it names, one field per
\* step. Only the handoff and the transport take part.
bystanders == <<evars, sample_pos, applied, last_call, observed, observed_at>>

WriterBegin(block_frames, musical_events) ==
    /\ w_pc = "idle"
    /\ n_published < MaxBlocks
    /\ w_write' = PlanHandoff_write_index(read_index)
    /\ w_next' = Scheduler_compile_block(musical_transport, block_frames,
                                         musical_events)
    /\ w_pc' = "block_start_sample"
    /\ UNCHANGED <<cvars, plans, read_index, musical_transport, n_published, published,
                   r_pc, r_index, r_seen, whole_plans, bystanders>>

WriterSetField(field, then) ==
    /\ w_pc = field
    /\ plans' = [plans EXCEPT ![w_write][field] = w_next[field]]
    /\ w_pc' = then
    /\ UNCHANGED <<cvars, read_index, musical_transport, n_published, published,
                   w_write, w_next, r_pc, r_index, r_seen, whole_plans,
                   bystanders>>

WriterClearSlices ==
    /\ w_pc = "clear"
    /\ plans' = [plans EXCEPT ![w_write].slices = <<>>]
    /\ w_pc' = "push"
    /\ UNCHANGED <<cvars, read_index, musical_transport, n_published, published,
                   w_write, w_next, r_pc, r_index, r_seen, whole_plans,
                   bystanders>>

WriterPushSlice ==
    /\ w_pc = "push"
    /\ Len(plans[w_write].slices) < Len(w_next.slices)
    /\ plans' = [plans EXCEPT ![w_write].slices =
                    Append(@, w_next.slices[Len(@) + 1])]
    /\ UNCHANGED <<cvars, read_index, musical_transport, n_published, published,
                   w_pc, w_write, w_next, r_pc, r_index, r_seen, whole_plans,
                   bystanders>>

WriterPublish ==
    /\ w_pc = "push"
    /\ Len(plans[w_write].slices) = Len(w_next.slices)
    /\ musical_transport' =
          MusicalTransport_advance_samples(musical_transport, w_next.block_frames)
    /\ read_index' = PlanHandoff_publish(read_index)
    /\ n_published' = n_published + 1
    /\ published' = plans[w_write]
    /\ whole_plans' = whole_plans \cup {plans[w_write]}
    /\ w_pc' = "idle"
    /\ UNCHANGED <<cvars, plans, w_write, w_next, r_pc, r_index, r_seen, bystanders>>

ReaderReadPlan ==
    /\ r_pc = "idle"
    /\ r_index' = read_index
    /\ r_seen' = NothingSeen
    /\ r_pc' = "block_start_sample"
    /\ UNCHANGED <<cvars, plans, read_index, musical_transport, n_published, published,
                   w_pc, w_write, w_next, whole_plans, bystanders>>

\* process_plan: first the block start, then the slices.
ReaderReadField(field, then) ==
    /\ r_pc = field
    /\ r_seen' = [r_seen EXCEPT ![field] = plans[r_index][field]]
    /\ r_pc' = then
    /\ UNCHANGED <<cvars, plans, read_index, musical_transport, n_published, published,
                   w_pc, w_write, w_next, r_index, whole_plans, bystanders>>

ReaderReturn ==
    /\ r_pc = "done"
    /\ r_pc' = "idle"
    /\ UNCHANGED <<cvars, plans, read_index, musical_transport, n_published, published,
                   w_pc, w_write, w_next, r_index, r_seen, whole_plans,
                   bystanders>>

HandoffEventLists ==
    {<<>>, <<[kind |-> "NoteOn", beat |-> musical_transport.beat_pos,
             note |-> 60, velocity |-> 1]>>}

NextHandoff ==
    \/ \E block_frames \in 1..MaxFrames, musical_events \in HandoffEventLists :
          WriterBegin(block_frames, musical_events)
    \/ WriterSetField("block_start_sample", "block_frames")
    \/ WriterSetField("block_frames", "bpm")
    \/ WriterSetField("bpm", "clear")
    \/ WriterClearSlices
    \/ WriterPushSlice
    \/ WriterPublish
    \/ ReaderReadPlan
    \/ ReaderReadField("block_start_sample", "slices")
    \/ ReaderReadField("slices", "done")
    \/ ReaderReturn

SpecHandoff == Init /\ [][NextHandoff]_vars

\* ------------------------------------------------------------------------
\* Claim about the concurrent handoff (under SpecHandoff)
\* ------------------------------------------------------------------------
WriterInSlot == w_pc # "idle"
ReaderInSlot == r_pc \in {"block_start_sample", "slices"}

CallEvents == last_call.musical_events
CallPos(i) ==
    MusicalTransport_event_sample_position(last_call.transport, CallEvents[i])
CallStart == last_call.transport.sample_pos
CallEnd == CallStart + last_call.block_frames
InWindow ==
    {i \in DOMAIN CallEvents :
        CallPos(i) # None /\ CallStart <= CallPos(i) /\ CallPos(i) < CallEnd}

\* A musical event without its beat.
Stripped(e) == [f \in DOMAIN e \ {"beat"} |-> e[f]]

\* C2: with publishes and reads that do not overlap, every read_plan returns
\* the most recently published plan: the plan a read returned is the last
\* published one until the next publish, and so is the plan any further read
\* would return.
ReadReturnsLastPublished ==
    n_published > 0 =>
        /\ PlanHandoff_read_plan(plans, read_index) = published
        /\ observed_at = n_published => observed = published

\* Plan A was published and read, then a different plan B was published and
\* the read after it returned B.
SecondReadReturnedSecondPlan ==
    /\ n_published = 2
    /\ observed_at = 2
    /\ observed = published
    /\ plans[0] # plans[1]
    /\ plans[0].slices # <<>>

RECURSIVE SumFrameCounts(_)
SumFrameCounts(slices) ==
    IF slices = <<>> THEN 0
    ELSE Head(slices).frame_count + SumFrameCounts(Tail(slices))

\* C3: in every published plan of at least one frame the frame counts of the
\* slices sum to block_frames, the first slice starts at offset 0 and every
\* later slice starts where the one before it ends.
SlicesTileBlock ==
    (n_published > 0 /\ published.block_frames >= 1) =>
        LET slices == published.slices IN
        /\ slices # <<>>
        /\ SumFrameCounts(slices) = published.block_frames
        /\ slices[1].frame_offset = 0
        /\ \A k \in 2..Len(slices) :
              slices[k].frame_offset =
                  slices[k - 1].frame_offset + slices[k - 1].frame_count

\* A plan of several slices was published for a block that does not start at
\* sample 0.
SeveralSlicesLaterBlock ==
    /\ n_published > 0
    /\ published.block_start_sample > 0
    /\ Len(published.slices) >= 2

\* C4: every event attached to a slice was compiled from a musical event of
\* the call whose computed sample position is the sample at which the slice
\* starts, and an event at the block start is attached to the first slice.
EventsSitAtSliceStarts ==
    n_published > 0 =>
        LET slices == published.slices IN
        /\ \A k \in DOMAIN slices : \A j \in DOMAIN slices[k].events :
              \E i \in DOMAIN CallEvents :
                  /\ CallPos(i) =
                        published.block_start_sample + slices[k].frame_offset
                  /\ Stripped(CallEvents[i]) = slices[k].events[j]
        /\ \A i \in InWindow :
              CallPos(i) = published.block_start_sample
                  => \E j \in DOMAIN slices[1].events :
                        slices[1].events[j] = Stripped(CallEvents[i])

\* A plan carries one event on its first slice and one on a later slice.
EventsOnFirstAndLaterSlice ==
    /\ n_published > 0
    /\ Len(published.slices) >= 2
    /\ published.slices[1].events # <<>>
    /\ published.slices[2].events # <<>>

PlanEventPlaces ==
    {<<k, j>> \in (DOMAIN published.slices) \X (1..MaxEvents + 1) :
        j \in DOMAIN published.slices[k].events}

\* C5: every musical event of the call whose computed position lies in the
\* block window appears in exactly one slice, the same but for its beat, and
\* an event outside the window appears in none: each event occurs in the
\* plan as often as it occurs, with a beat, among the in-window events.
NoEventLostOrDuplicated ==
    n_published > 0 =>
        /\ Cardinality(PlanEventPlaces) = Cardinality(InWindow)
        /\ \A ev \in {Stripped(CallEvents[i]) : i \in DOMAIN CallEvents} :
              Cardinality({p \in PlanEventPlaces :
                              published.slices[p[1]].events[p[2]] = ev})
                = Cardinality({i \in InWindow : Stripped(CallEvents[i]) = ev})

\* Of two musical events passed, a targeted one lay in the window and is in
\* the plan, the other lay outside.
TargetedEventKeptOtherDropped ==
    /\ n_published > 0
    /\ Len(CallEvents) = 2
    /\ Cardinality(InWindow) = 1
    /\ \E i \in InWindow : CallEvents[i].kind = "NoteOffTarget"
    /\ Cardinality(PlanEventPlaces) = 1

\* The place of in-window event i in the order of application: behind the
\* events at earlier positions and the earlier events at its own position.
Rank(i) ==
    Cardinality({j \in InWindow :
                    \/ CallPos(j) < CallPos(i)
                    \/ CallPos(j) = CallPos(i) /\ j < i})

\* C6: process_plan on the plan compile_block produced applies the events in
\* non-decreasing sample position, those at one position in the order they
\* had in the musical_events passed to compile_block.
EventsAppliedInOrder ==
    (n_published > 0 /\ observed_at = n_published) =>
        /\ Len(applied) = Cardinality(InWindow)
        /\ \A k \in 2..Len(applied) : applied[k - 1].at <= applied[k].at
        /\ \A i \in InWindow :
              /\ Rank(i) + 1 \in DOMAIN applied
              /\ applied[Rank(i) + 1] =
                    [at |-> CallPos(i), event |-> Stripped(CallEvents[i])]

\* Two different events at one sample position have been applied.
TwoEventsAppliedAtOnePosition ==
    /\ n_published > 0
    /\ observed_at = n_published
    /\ Len(applied) = 2
    /\ applied[1].at = applied[2].at
    /\ applied[1].event # applied[2].event

\* ------------------------------------------------------------------------
\* Claims about the voice allocator (under SpecVoices)
\* ------------------------------------------------------------------------

\* C7: after any sequence of note_on, note_off, deactivate and clear_triggers
\* the number of active voices is at most max_voices, every id yielded by
\* active_voices or returned by note_on lies in 0..max_voices-1, and a
\* note_on issued while every slot is active leaves the active count as it was.
VoicePoolBound ==
    /\ VoiceAllocator_active_count(voices) <= max_voices
    /\ Len(VoiceAllocator_active_voices(voices)) <= max_voices
    /\ Range(VoiceAllocator_active_voices(voices)) \subseteq 0..(max_voices - 1)
    /\ (last_op.op = "note_on" /\ last_op.ret # None)
          => last_op.ret \in 0..(max_voices - 1)
    /\ (last_op.op = "note_on" /\ last_op.pre_active = max_voices)
          => VoiceAllocator_active_count(voices) = max_voices

\* A note_on has just taken a slot of a full pool of MaxVoices voices.
StealAtFullPool ==
    /\ max_voices = MaxVoices
    /\ last_op.op = "note_on"
    /\ last_op.pre_active = max_voices
    /\ last_op.ret \in 0..(max_voices - 1)
    /\ voices[last_op.ret].note = last_op.note

\* C8: whenever note_on is called while every slot is active, the slot it
\* takes over is the active slot whose most recent note_on happened earliest.
OldestFirstStealing ==
    (last_op.op = "note_on" /\ max_voices > 0 /\ last_op.pre_active = max_voices)
        => last_op.ret = last_op.oldest

\* C9: note_off(note) changes at most one slot: the first slot that is
\* active, gated and holds the note gets gate = false and release = true and
\* stays active; every other slot is unchanged; with no such slot nothing
\* changes.
NoteOffChangesFirstHolderOnly ==
    [][last_op'.op = "note_off" =>
         LET note == last_op'.note
             holds(i) == voices[i].active /\ voices[i].gate
                            /\ voices[i].note = note
         IN  /\ DOMAIN voices' = DOMAIN voices
             /\ \A i \in DOMAIN voices :
                   IF holds(i) /\ \A j \in DOMAIN voices : holds(j) => i <= j
                   THEN /\ voices'[i].active
                        /\ ~voices'[i].gate
                        /\ voices'[i].release
                        /\ voices'[i].id = voices[i].id
                        /\ voices'[i].note = voices[i].note
                        /\ voices'[i].velocity = voices[i].velocity
                        /\ voices'[i].trigger = voices[i].trigger
                   ELSE voices'[i] = voices[i]
    ]_vars

\* note_off has released the first of two slots that held the same note; the
\* second still holds it with its gate high.
NoteOffReleasedFirstOfTwo ==
    /\ last_op.op = "note_off"
    /\ \E i, j \in DOMAIN voices :
          /\ i < j
          /\ voices[i].active /\ voices[i].release /\ ~voices[i].gate
          /\ voices[i].note = last_op.note
          /\ voices[j].active /\ voices[j].gate
          /\ voices[j].note = last_op.note

\* ------------------------------------------------------------------------
\* Claims about the graph's finish vote (under SpecGraph)
\* ------------------------------------------------------------------------
PerVoiceNodes == {n \in DOMAIN nodes : nodes[n].per_voice}

\* C10: after one Graph.process call a voice id is in voices_to_deactivate
\* if and only if the voice was active and every per-voice node of the graph
\* returned silent for it in that call (a graph without per-voice nodes
\* casts no votes and lists no voice).
UnanimousVoiceFinishVote ==
    last_op.op = "process" =>
        \A v \in 0..(max_voices - 1) :
            (v \in Range(voices_to_deactivate))
                <=> /\ voices[v].active
                    /\ PerVoiceNodes # {}
                    /\ \A n \in PerVoiceNodes : verdicts[n][v]

\* ------------------------------------------------------------------------
\* Claims about the voice lifecycle (under SpecLifecycle, SpecLifecycleFair)
\* ------------------------------------------------------------------------

\* C11: when process_plan returns, every voice id the graph had recorded in
\* voices_to_deactivate has been deactivated (inactive, all flags cleared)
\* and the list is empty.
FinishedVoicesReclaimedAtBlockEnd ==
    last_op.op = "process_plan" =>
        /\ voices_to_deactivate = <<>>
        /\ \A v \in finished :
              /\ ~voices[v].active
              /\ ~voices[v].gate
              /\ ~voices[v].trigger
              /\ ~voices[v].release

\* C12: once every sounding note has been released and, from some block on,
\* every per-voice node of the graph (there is at least one) reports silent
\* for every voice and no note is started, the pool eventually has no active
\* voice.
ReleasedVoiceEventuallyInactive ==
    (quiet /\ PerVoiceNodes # {}) ~> (VoiceAllocator_active_count(voices) = 0)

\* ------------------------------------------------------------------------
\* Claims about the command bridge (under SpecBridge)
\* ------------------------------------------------------------------------
NotRtSafe ==
    {"AddNode", "AddNodeDef", "RemoveNode", "Connect", "Disconnect",
     "SetOutputNode", "ClearGraph", "LoadConnections", "RecompileGraph"}

\* C13: process_command returns false exactly for the graph-structure
\* commands and true for every other command, and a finished
\* process_commands call returned true if and only if one of the commands it
\* drained returned false.
RecompileFlagMatchesCommands ==
    /\ \A i \in DOMAIN pc_drained :
          pc_drained[i].ret = (pc_drained[i].cmd.kind \notin NotRtSafe)
    /\ pc_returned # <<>> =>
          (pc_returned[1] <=> \E i \in DOMAIN pc_drained : ~pc_drained[i].ret)

\* One call drained a graph-structure command and another command and
\* returned true.
MixedCallAsksForRecompile ==
    /\ pc_returned = <<TRUE>>
    /\ Len(pc_drained) = 2
    /\ \E i, j \in DOMAIN pc_drained : pc_drained[i].ret /\ ~pc_drained[j].ret

\* C14: in every interleaving of sends and process_commands steps the
\* commands applied are, in order, the commands sent so far less those still
\* waiting (each once, in send order), and a finished process_commands call
\* has applied every command that was sent before it started.
CommandsAppliedInSendOrder ==
    /\ applied_log \o command_queue = sent_log
    /\ pc_returned # <<>> => Len(applied_log) >= pc_called_at

\* Two different commands were applied by one call, the second of them sent
\* while the call was running.
SentDuringCallAppliedInOrder ==
    /\ pc_returned # <<>>
    /\ Len(applied_log) = 2
    /\ applied_log[1] # applied_log[2]
    /\ pc_called_at = 1
    /\ Len(pc_drained) = 2

\* C15: just after the Engine processed a Stop command, playing is false,
\* every node instance has its DSP state as reset leaves it, and no voice is
\* active, whatever voices were active before.
StopSilencesAllVoices ==
    (last_op.op = "process_command" /\ last_op.cmd.kind = "Stop") =>
        /\ ~playing
        /\ \A idx \in DOMAIN node_state : \A v \in DOMAIN node_state[idx] :
              node_state[idx][v].fresh /\ node_state[idx][v].audio = {}
        /\ VoiceAllocator_active_count(voices) = 0

\* The graph index compile gives the node node_id of def: nodes are added in
\* ascending order of NodeId.
DefIndex(def, node_id) == Cardinality({n \in DOMAIN def.nodes : n < node_id})

\* C16: the Graph a successful compile returns has an id_to_index with an
\* entry for every NodeId of the GraphDef, mapping it to that node's graph
\* index, distinct NodeIds to distinct indices.
CompiledGraphMapsEveryNodeId ==
    (last_op.op = "compile" /\ last_compile.result.ok) =>
        LET def == last_compile.def
            map == last_compile.result.graph.id_to_index
        IN  /\ DOMAIN def.nodes \subseteq DOMAIN map
            /\ \A id \in DOMAIN def.nodes : map[id] = DefIndex(def, id)
            /\ \A a, b \in DOMAIN def.nodes : a # b => map[a] # map[b]

\* Every instance of the node node_id of the installed graph has had
\* set_param(param_id, value).
ParamSetOn(node_id, param_id, value) ==
    LET idx == DefIndex(installed_def, node_id)
    IN  /\ idx \in DOMAIN node_state
        /\ \A v \in DOMAIN node_state[idx] :
              node_state[idx][v].params[param_id] = value

\* The events of a plan, slice by slice.
PlanEvents(plan) ==
    UNION {Range(plan.slices[k].events) : k \in DOMAIN plan.slices}

\* C17: a SetParam command or a ParamChange event naming a NodeId compiled
\* into the installed graph has set_param(param_id, value) called on every
\* instance of that node, by the time the command or the block is processed.
ParamReachesNamedNode ==
    /\ ( /\ last_op.op = "process_command"
         /\ last_op.cmd.kind = "SetParam"
         /\ last_op.cmd.node_id \in DOMAIN installed_def.nodes )
       => ParamSetOn(last_op.cmd.node_id, last_op.cmd.param_id, last_op.cmd.value)
    /\ last_op.op = "process_plan"
       => \A e \in PlanEvents(last_block.plan) :
             (e.kind = "ParamChange" /\ e.node_id \in DOMAIN installed_def.nodes)
             => ParamSetOn(e.node_id, e.param_id, e.value)

\* A plan without the ParamChange, AudioStart and AudioStop events that name
\* a NodeId outside ids.
WithoutUnknown(plan, ids) ==
    [plan EXCEPT !.slices =
        [k \in DOMAIN @ |->
            [@[k] EXCEPT !.events =
                SelectSeq(@, LAMBDA e :
                    e.kind \in {"ParamChange", "AudioStart", "AudioStop"}
                    => e.node_id \in ids)]]]

\* C18: a SetParam command naming a NodeId that is not in the installed
\* graph leaves the graph, the voice allocator and the transport flags
\* unchanged; a block leaves them exactly as the same block without its
\* ParamChange, AudioStart and AudioStop events for such NodeIds would.
UnknownNodeIdDropped ==
    [][ /\ ( /\ last_op'.op = "process_command"
             /\ last_op'.cmd.kind = "SetParam"
             /\ last_op'.cmd.node_id \notin DOMAIN installed_def.nodes )
           => UNCHANGED <<nodes, node_state, id_to_index, eval_order,
                          voices_to_deactivate, voices, playing, engine_bpm>>
        /\ last_op'.op = "process_plan"
           => LET plan == WithoutUnknown(last_block'.plan, DOMAIN installed_def.nodes)
                  st == Engine_process_plan(
                            [sample_pos |-> sample_pos, voices |-> voices,
                             nodes |-> nodes, vtd |-> voices_to_deactivate,
                             calls |-> verdicts, order |-> note_on_order,
                             applied |-> applied, node_state |-> node_state,
                             id_to_index |-> id_to_index],
                            plan, eval_order,
                            [k \in DOMAIN plan.slices |-> last_block'.ret])
              IN  /\ nodes' = st.nodes
                  /\ node_state' = st.node_state
                  /\ voices_to_deactivate' = st.vtd
                  /\ voices' = st.voices
                  /\ UNCHANGED <<id_to_index, eval_order, playing, engine_bpm>>
      ]_vars

\* A block has just applied a ParamChange for a node that an earlier
\* swap_graph removed from the installed, non-empty graph.
EventForRemovedNodeProcessed ==
    /\ last_op.op = "process_plan"
    /\ nodes # <<>>
    /\ \E e \in PlanEvents(last_block.plan) :
          /\ e.kind = "ParamChange"
          /\ e.node_id \notin DOMAIN installed_def.nodes
          /\ e.node_id \in ever_installed

\* The NodeIds of def whose type id has no factory in the registry, and the
\* positions of the connections of def that name a NodeId not in def.nodes.
UnknownTypeNodes(def) ==
    {n \in DOMAIN def.nodes : def.nodes[n].type_id \notin DOMAIN Registry}

InvalidConnections(def) ==
    {k \in DOMAIN def.connections :
        \/ def.connections[k].source_node \notin DOMAIN def.nodes
        \/ def.connections[k].dest_node \notin DOMAIN def.nodes}

\* C19 as stated: compile returns Err(UnknownNodeType) whenever some NodeDef
\* has an unregistered type, Err(InvalidConnection) whenever some connection
\* names a NodeId not in def.nodes, and Ok otherwise.
CompileErrorForEachFault ==
    last_op.op = "compile" =>
        LET def == last_compile.def
            r == last_compile.result
        IN  /\ UnknownTypeNodes(def) # {} =>
                  /\ ~r.ok
                  /\ r.error.kind = "UnknownNodeType"
                  /\ r.error.node_id \in UnknownTypeNodes(def)
                  /\ r.error.type_id = def.nodes[r.error.node_id].type_id
            /\ InvalidConnections(def) # {} =>
                  /\ ~r.ok
                  /\ r.error.kind = "InvalidConnection"
                  /\ \E k \in InvalidConnections(def) :
                        /\ r.error.source = def.connections[k].source_node
                        /\ r.error.dest = def.connections[k].dest_node
            /\ (UnknownTypeNodes(def) = {} /\ InvalidConnections(def) = {}) => r.ok

\* C19: compile returns Err(UnknownNodeType) for the smallest NodeId whose
\* type has no factory whenever there is one; otherwise Err(InvalidConnection)
\* for the first connection in list order that names a NodeId not in
\* def.nodes whenever there is one; and Ok otherwise, the empty GraphDef
\* included.
CompileErrorByPrecedence ==
    last_op.op = "compile" =>
        LET def == last_compile.def
            r == last_compile.result
            unknown == UnknownTypeNodes(def)
            invalid == InvalidConnections(def)
        IN  /\ unknown # {} =>
                  /\ ~r.ok
                  /\ r.error = [kind |-> "UnknownNodeType",
                                node_id |-> Min(unknown),
                                type_id |-> def.nodes[Min(unknown)].type_id]
            /\ (unknown = {} /\ invalid # {}) =>
                  /\ ~r.ok
                  /\ r.error = [kind |-> "InvalidConnection",
                                source |-> def.connections[Min(invalid)].source_node,
                                dest |-> def.connections[Min(invalid)].dest_node]
            /\ (unknown = {} /\ invalid = {}) => r.ok

\* compile was called on a GraphDef that has two nodes of an unregistered
\* type and two different dangling connections.
CompiledWithBothFaults ==
    /\ last_op.op = "compile"
    /\ Cardinality(UnknownTypeNodes(last_compile.def)) = 2
    /\ Cardinality(InvalidConnections(last_compile.def)) = 2
    /\ last_compile.def.connections[1] # last_compile.def.connections[2]
    /\ ~last_compile.result.ok

\* The wiring of a graph: for each index, its polyphony and its inputs.
Wiring(ns) ==
    [idx \in DOMAIN ns |->
        [per_voice |-> ns[idx].per_voice, inputs |-> ns[idx].inputs]]

\* C20: a recompile whose compile returns Err changes nothing in the Engine,
\* and every process_plan runs on the graph compiled from the GraphDef of the
\* last successful compile.
FailedCompileLeavesGraphInstalled ==
    [][ /\ (last_op'.op = "recompile" /\ ~last_compile'.result.ok)
           => UNCHANGED <<max_voices, voices, note_on_order, nodes, eval_order,
                          voices_to_deactivate, verdicts, node_state,
                          id_to_index, playing, engine_bpm, sample_pos,
                          installed_def>>
        /\ last_op'.op = "process_plan"
           => /\ UNCHANGED <<installed_def, eval_order>>
              /\ Wiring(nodes) =
                    Wiring(compile(installed_def, Registry, max_voices).graph.nodes)
              /\ Wiring(nodes') = Wiring(nodes)
              /\ DOMAIN verdicts' = DOMAIN nodes
      ]_vars

\* The last compile failed while a non-empty graph was installed, and a block
\* has since run that graph's nodes.
BlockAfterFailedCompile ==
    /\ last_op.op = "process_plan"
    /\ ~last_compile.result.ok
    /\ nodes # <<>>
    /\ \E idx \in DOMAIN verdicts : verdicts[idx] # <<>>

\* The distinct source nodes of the connections into dest, in the order of
\* their first connection in the list.
RECURSIVE FirstSources(_, _, _)
FirstSources(conns, dest, seen) ==
    IF conns = <<>> THEN <<>>
    ELSE IF Head(conns).dest_node = dest /\ Head(conns).source_node \notin seen
         THEN <<Head(conns).source_node>> \o
              FirstSources(Tail(conns), dest, seen \cup {Head(conns).source_node})
         ELSE FirstSources(Tail(conns), dest, seen)

\* C21: for a GraphDef that compiles, the graph has exactly one node per
\* NodeDef, at the index given by the ascending order of the NodeIds and of
\* the polyphony of its type; the inputs of a node hold each distinct source
\* node connected into it exactly once, whatever the ports, in the order of
\* the first connections; so indices and edges are a function of the
\* GraphDef alone.
CompileOneNodePerDefInIdOrder ==
    (last_op.op = "compile" /\ last_compile.result.ok) =>
        LET def == last_compile.def
            g == last_compile.result.graph
        IN  /\ DOMAIN g.nodes = 0..(Cardinality(DOMAIN def.nodes) - 1)
            /\ DOMAIN g.node_state = DOMAIN g.nodes
            /\ \A id \in DOMAIN def.nodes :
                  LET node == g.nodes[DefIndex(def, id)]
                      sources == FirstSources(def.connections, id, {})
                  IN  /\ node.per_voice =
                            (Registry[def.nodes[id].type_id] = "PerVoice")
                      /\ \A i, j \in DOMAIN node.inputs :
                            i # j => node.inputs[i] # node.inputs[j]
                      /\ Range(node.inputs) =
                            {DefIndex(def, c.source_node) :
                                c \in {d \in Range(def.connections) : d.dest_node = id}}
                      /\ node.inputs =
                            [k \in DOMAIN sources |-> DefIndex(def, sources[k])]

\* compile succeeded on a GraphDef of two nodes, a per-voice one of larger
\* NodeId feeding a global one through two connections that differ in the
\* source port only.
CompiledTwoPortsIntoOneEdge ==
    /\ last_op.op = "compile"
    /\ last_compile.result.ok
    /\ DOMAIN last_compile.def.nodes = {1, 2}
    /\ last_compile.def.nodes[2].type_id = 2
    /\ last_compile.def.nodes[1].type_id = 1
    /\ last_compile.def.connections =
          <<ConnectionDef(2, 0, 1, 0), ConnectionDef(2, 1, 1, 0)>>
    /\ last_compile.result.graph.nodes[0].inputs = <<1>>

\* A graph has no directed cycle when its nodes can be ranked so that every
\* input of a node ranks below the node.
Acyclic(ns) ==
    \E rank \in [DOMAIN ns -> 0..Cardinality(DOMAIN ns)] :
        \A n \in DOMAIN ns : \A i \in Range(ns[n].inputs) : rank[i] < rank[n]

\* C22: after prepare on an acyclic graph the evaluation order holds every
\* node index exactly once, and every input of a node stands before the node.
EvalOrderIsTopological ==
    (last_op.op = "prepare" /\ Acyclic(nodes)) =>
        /\ Len(eval_order) = Cardinality(DOMAIN nodes)
        /\ Range(eval_order) = DOMAIN nodes
        /\ \A p \in DOMAIN eval_order :
              \A i \in Range(nodes[eval_order[p]].inputs) :
                 \E q \in 1..(p - 1) : eval_order[q] = i

\* prepare ran on an acyclic graph of three nodes whose evaluation order is
\* not the order of the indices: node 1 feeds node 2, which feeds node 0.
PreparedAgainstIndexOrder ==
    /\ last_op.op = "prepare"
    /\ DOMAIN nodes = 0..2
    /\ nodes[0].inputs = <<2>>
    /\ nodes[2].inputs = <<1>>
    /\ nodes[1].inputs = <<>>
    /\ eval_order = <<1, 2, 0>>

NoRepeat(s) == \A i, j \in DOMAIN s : i # j => s[i] # s[j]

\* C23: GraphDef.connect with a tuple already in the list leaves the list as
\* it is, and otherwise appends the tuple, so the list never holds a tuple
\* twice; Graph.connect(src, dst) with src already among dst's inputs leaves
\* the graph as it is, and otherwise appends src, so dst.inputs never holds
\* src twice.
ConnectIsIdempotent ==
    [][ /\ last_op'.op = "def_connect"
           => LET c == last_op'.conn
                  before == session.graph.connections
                  after == session'.graph.connections
              IN  /\ c \in Range(before) => after = before
                  /\ c \notin Range(before) => after = Append(before, c)
                  /\ NoRepeat(after)
        /\ last_op'.op = "connect"
           => LET src == last_op'.src
                  dst == last_op'.dst
              IN  /\ src \in Range(nodes[dst].inputs) => nodes' = nodes
                  /\ src \notin Range(nodes[dst].inputs)
                        => nodes' = [nodes EXCEPT ![dst].inputs = Append(@, src)]
                  /\ \A n \in DOMAIN nodes' : NoRepeat(nodes'[n].inputs)
                  /\ Cardinality({k \in DOMAIN nodes'[dst].inputs :
                                     nodes'[dst].inputs[k] = src}) = 1
      ]_vars

\* The session's list holds two tuples that differ in a port only, and
\* Graph.connect has just been called with an edge the graph already had.
ConnectedTwice ==
    /\ last_op.op = "connect"
    /\ last_op.present
    /\ nodes[last_op.dst].inputs = <<1, 0>>
    /\ Len(session.graph.connections) = 2
    /\ session.graph.connections[1].source_node = session.graph.connections[2].source_node
    /\ session.graph.connections[1].dest_node = session.graph.connections[2].dest_node

\* The connections of g between nodes g holds.
LiveConnections(g) ==
    {c \in Range(g.connections) :
        c.source_node \in DOMAIN g.nodes /\ c.dest_node \in DOMAIN g.nodes}

\* C24: in every state the editor reaches through send, the session's graph
\* has no directed cycle among its nodes, a connection from a node to itself
\* included: the nodes can be ranked so that every connection goes upward.
SessionGraphAcyclic ==
    \E rank \in [DOMAIN session.graph.nodes -> 0..Cardinality(DOMAIN session.graph.nodes)] :
        \A c \in LiveConnections(session.graph) :
            rank[c.source_node] < rank[c.dest_node]

\* C25: the NodeIds add_node returns are strictly increasing over the whole
\* life of the session, whatever edits lie between two add_node calls.
NodeIdsNeverReused ==
    \A i, j \in DOMAIN issued : i < j => issued[i] < issued[j]

\* What a command visibly does to the session it was applied to.
EffectApplied(se, cmd) ==
    LET conn == [source_node |-> cmd.source_node, source_port |-> cmd.source_port,
                 dest_node |-> cmd.dest_node, dest_port |-> cmd.dest_port]
    IN  CASE cmd.kind = "AddNode" ->
                /\ se.graph.next_id - 1 \in DOMAIN se.graph.nodes
                /\ se.graph.nodes[se.graph.next_id - 1].type_id = cmd.type_id
          [] cmd.kind = "RemoveNode" ->
                /\ cmd.node_id \notin DOMAIN se.graph.nodes
                /\ \A c \in Range(se.graph.connections) :
                      c.source_node # cmd.node_id /\ c.dest_node # cmd.node_id
          [] cmd.kind = "Connect" -> conn \in Range(se.graph.connections)
          [] cmd.kind = "Disconnect" -> conn \notin Range(se.graph.connections)
          [] cmd.kind = "ClearGraph" ->
                DOMAIN se.graph.nodes = {} /\ se.graph.connections = <<>>
          [] cmd.kind = "SetTempo" -> se.transport.bpm = cmd.bpm
          [] cmd.kind = "Seek" -> se.transport.beat_position = cmd.beat
          [] cmd.kind = "LoadConnections" ->
                Range(cmd.connections) \subseteq Range(se.graph.connections)
          [] cmd.kind = "CreateClip" ->
                se.arrangement # <<>> /\ se.arrangement[Len(se.arrangement)] = cmd

\* C26: at the moment a command sent through send becomes visible in the
\* command channel, its effect is already in the editor's session.
EffectInSessionWhenEnqueued ==
    (s_pc = "idle" /\ sent_log # <<>>) =>
        EffectApplied(session, sent_log[Len(sent_log)])

\* ---- clips played block after block --------------------------------------
\* The session's arrangement is built once and a block length is fixed
\* (Load); from then on the audio thread renders contiguous windows with
\* generate_events while clips are launched and stopped in between.
ClipShapes == {x \in (1..MaxClipLen) \X (0..(MaxClipLen - 1)) : x[2] < x[1]}

ClipTracks ==
    {(1 :> TrackDef(FALSE, FALSE, 0)) @@ (2 :> TrackDef(FALSE, FALSE, 1)),
     (1 :> TrackDef(TRUE, FALSE, 0)) @@ (2 :> TrackDef(FALSE, FALSE, 1)),
     (1 :> TrackDef(FALSE, FALSE, 0)) @@ (2 :> TrackDef(FALSE, TRUE, 1)),
     (1 :> TrackDef(FALSE, FALSE, None)) @@ (2 :> TrackDef(FALSE, FALSE, 1))}

ClipArrangements ==
    {[clips |-> (1 :> ClipDef(x[1], looping, <<NoteDef(x[2], 1, 60)>>))
                @@ (2 :> ClipDef(2, TRUE, <<NoteDef(0, 1, 62), NoteDef(1, 3, 62)>>)),
      tracks |-> tracks] :
        x \in ClipShapes, looping \in BOOLEAN, tracks \in ClipTracks}

PlayingClipMaps == UNION {[T -> {1, 2}] : T \in SUBSET {1, 2}}

CountOf(events, kind, k) ==
    Cardinality({i \in DOMAIN events :
                    events[i].kind = kind /\ <<events[i].node_id, events[i].note>> = k})

SoundingAfter(s, events) ==
    [k \in NoteKeys |->
        s[k] + CountOf(events, "NoteOnTarget", k) - CountOf(events, "NoteOffTarget", k)]

nonclip == <<evars, svars, hvars, gvars, fvars, lvars, bvars, ivars, dvars>>

Load(a, window) ==
    /\ arrangement = Arrangement_new
    /\ arrangement' = a
    /\ cp_window' = window
    /\ UNCHANGED <<nonclip, clip_playback, cp_beat, sounding>>

StartClip(clip_id, track_id) ==
    /\ arrangement # Arrangement_new
    /\ clip_playback' = ClipPlayback_start_clip(clip_playback, clip_id, track_id, cp_beat)
    /\ UNCHANGED <<nonclip, arrangement, cp_window, cp_beat, sounding>>

StopTrack(track_id) ==
    /\ arrangement # Arrangement_new
    /\ clip_playback' = ClipPlayback_stop_track(clip_playback, track_id)
    /\ UNCHANGED <<nonclip, arrangement, cp_window, cp_beat, sounding>>

StopAll ==
    /\ arrangement # Arrangement_new
    /\ clip_playback' = ClipPlayback_stop_all(clip_playback)
    /\ UNCHANGED <<nonclip, arrangement, cp_window, cp_beat, sounding>>

SyncWithArrangement(playing_clips) ==
    /\ arrangement # Arrangement_new
    /\ clip_playback' = ClipPlayback_sync_with_arrangement(clip_playback, playing_clips, cp_beat)
    /\ UNCHANGED <<nonclip, arrangement, cp_window, cp_beat, sounding>>

GenerateEvents ==
    /\ arrangement # Arrangement_new
    /\ cp_beat + cp_window <= MaxBeat
    /\ clip_playback' = ClipPlayback_generate_events(clip_playback, arrangement, cp_beat, cp_beat + cp_window)
    /\ sounding' = SoundingAfter(sounding, clip_playback'.event_buffer)
    /\ cp_beat' = cp_beat + cp_window
    /\ UNCHANGED <<nonclip, arrangement, cp_window>>

GenerateStopEvents ==
    /\ arrangement # Arrangement_new
    /\ \E r \in {ClipPlayback_generate_stop_events(clip_playback, cp_beat)} :
          /\ clip_playback' = r.clip_playback
          /\ sounding' = SoundingAfter(sounding, r.events)
    /\ UNCHANGED <<nonclip, arrangement, cp_window, cp_beat>>

NextClips ==
    \/ \E a \in ClipArrangements, window \in 1..MaxWindow : Load(a, window)
    \/ \E clip_id \in 1..2, track_id \in 1..2 : StartClip(clip_id, track_id)
    \/ \E track_id \in 1..2 : StopTrack(track_id)
    \/ StopAll
    \/ \E playing_clips \in PlayingClipMaps : SyncWithArrangement(playing_clips)
    \/ GenerateEvents
    \/ GenerateStopEvents

SpecClips == Init /\ [][NextClips]_vars

\* C27: when generate_events renders a window, every playing looping clip
\* on an audible track with a target node gets, for each beat b of the
\* window and each note number, as many NoteOnTarget events at b as the
\* clip has notes of that number with b = start beat of the clip
\* + k * clip length + note.start for some k >= 0: each loop iteration
\* triggers each note once, none is missed and none is doubled.
LoopTriggersOncePerIteration ==
    [][cp_beat' # cp_beat =>
         \A t \in DOMAIN clip_playback.playing :
            LET pc == clip_playback.playing[t]
                clip == arrangement.clips[pc.clip_id]
                target == arrangement.tracks[t].target_node
            IN (/\ Arrangement_is_track_audible(arrangement, t)
                /\ target # None
                /\ clip.looping)
               => \A b \in cp_beat..(cp_beat' - 1), note \in {60, 62} :
                     Cardinality({i \in DOMAIN clip_playback'.event_buffer :
                            clip_playback'.event_buffer[i] = NoteOnTarget(b, target, note)})
                       = Cardinality({i \in DOMAIN clip.notes :
                            /\ clip.notes[i].note = note
                            /\ b >= pc.start_beat + clip.notes[i].start
                            /\ (b - pc.start_beat - clip.notes[i].start) % clip.length = 0})
    ]_vars

\* C28: every note ClipPlayback has switched on and not yet switched off is
\* held in active_notes, the list every NoteOffTarget is generated from,
\* so that its note-off is still to come: per target node and note, the
\* NoteOnTarget events emitted so far are the NoteOffTarget events emitted
\* so far plus the entries of active_notes.
EveryNoteOnGetsItsNoteOff ==
    \A k \in NoteKeys :
        sounding[k] =
            Cardinality({i \in DOMAIN clip_playback.active_notes :
                <<clip_playback.active_notes[i].key.target_node,
                  clip_playback.active_notes[i].key.note>> = k})

\* C29: every slice of every plan compile_block has published covers at
\* least one frame, whatever block_frames (0 included) and whatever events
\* the call was given.
EverySliceHasAFrame ==
    \A i \in DOMAIN plans :
        \A k \in DOMAIN plans[i].slices : plans[i].slices[k].frame_count >= 1

\* C30: blocks are contiguous. Every compile_block publishes a plan that
\* starts where the plan before it ended (the first one at sample 0) and
\* moves the transport on by block_frames, once; a step that is no
\* compile_block (set_bpm, the audio callback) leaves the sample position
\* alone.
BlocksAreContiguous ==
    [][/\ n_published' = n_published
          => musical_transport'.sample_pos = musical_transport.sample_pos
       /\ n_published' # n_published
          => /\ n_published = 0 => published'.block_start_sample = 0
             /\ published'.block_start_sample =
                   published.block_start_sample + published.block_frames
             /\ published'.block_frames = last_call'.block_frames
             /\ musical_transport'.sample_pos =
                   published'.block_start_sample + published'.block_frames
    ]_vars

\* Two blocks of at least one frame have been published, the first at 120
\* bpm and the second, after a set_bpm, at 60 bpm.
SecondBlockAfterTempoChange ==
    /\ n_published = 2
    /\ plans[1 - read_index].bpm = 120
    /\ plans[1 - read_index].block_frames >= 1
    /\ published = plans[read_index]
    /\ published.bpm = 60
    /\ published.block_frames >= 1

\* What process_plan has to do for the slices from the k-th on, as trace
\* entries less the voices a Graph.process entry carries.
RECURSIVE SliceSteps(_, _)
SliceSteps(plan, k) ==
    IF k > Len(plan.slices) THEN <<>>
    ELSE [j \in DOMAIN plan.slices[k].events |->
             [step |-> "apply_event", event |-> plan.slices[k].events[j]]]
         \o <<[step |-> "graph_process",
               frames |-> plan.slices[k].frame_count,
               sample_position |->
                   plan.block_start_sample + plan.slices[k].frame_offset]>>
         \o SliceSteps(plan, k + 1)

StepsOf(trace) ==
    [i \in DOMAIN trace |->
        IF trace[i].step = "graph_process"
          THEN [step |-> "graph_process", frames |-> trace[i].frames,
                sample_position |-> trace[i].sample_position]
          ELSE trace[i]]

\* C31: process_plan leaves the sample position at plan.block_start_sample
\* and, slice after slice in plan order, applies the events of the slice in
\* their order and then calls Graph.process once, with the slice's
\* frame_count and with block_start_sample + frame_offset; so no event of a
\* later slice is applied before an earlier slice has been processed.
SlicesProcessedInPlanOrder ==
    last_op.op = "process_plan"
    => /\ sample_pos = last_op.plan.block_start_sample
       /\ SubSeq(StepsOf(last_op.trace), 1, Len(last_op.trace) - 1)
             = SliceSteps(last_op.plan, 1)

\* process_plan has run a plan of a later block that has two slices, each
\* with an event.
TwoSlicesWithEventsProcessed ==
    /\ last_op.op = "process_plan"
    /\ last_op.plan.block_start_sample > 0
    /\ Len(last_op.plan.slices) >= 2
    /\ last_op.plan.slices[1].events # <<>>
    /\ last_op.plan.slices[2].events # <<>>

\* ---- one-block pulses: trigger and release over the slices of a block -----
\* Notes are started and released by commands between the blocks and by
\* events on the first and on the second slice of a block.
PulseEventChoices ==
    {[beat |-> 0, kind |-> "NoteOn", note |-> 60, velocity |-> 1],
     [beat |-> 0, kind |-> "NoteOff", note |-> 60],
     [beat |-> 2, kind |-> "NoteOn", note |-> 62, velocity |-> 1],
     [beat |-> 2, kind |-> "NoteOff", note |-> 60]}

PulsePlans ==
    {Scheduler_compile_block(MusicalTransport_new, MaxFrames, evs) :
        evs \in UNION {[1..n -> PulseEventChoices] : n \in 0..2}}

PulseBlock(plan) ==
    /\ ProcessPlanOn(plan, [idx \in DOMAIN nodes |-> [v \in (-1)..(max_voices - 1) |-> FALSE]])
    /\ UNCHANGED ivars

InitPulse ==
    /\ max_voices \in 1..MaxVoices
    /\ voices = VoiceAllocator_new(max_voices)
    /\ last_op = NoOp
    /\ note_on_order = <<>>
    /\ nodes = NoGraph
    /\ eval_order = <<>>
    /\ voices_to_deactivate = <<>>
    /\ verdicts = <<>>
    /\ InitScheduler

NextPulse ==
    \/ \E velocity \in Velocities : NoteOn(60, velocity)
    \/ NoteOff(60)
    \/ \E plan \in PulsePlans : PulseBlock(plan)

SpecPulse == InitPulse /\ [][NextPulse]_vars

GraphProcessCalls(trace) == {i \in DOMAIN trace : trace[i].step = "graph_process"}

\* clear_triggers is called once, last, and leaves no flag set; a flag seen
\* by a Graph.process was set before the block or by an event applied
\* earlier in the block.
PulseClearedOnce(vs, op, after) ==
    /\ {i \in DOMAIN op.trace : op.trace[i].step = "clear_triggers"} = {Len(op.trace)}
    /\ \A v \in DOMAIN after : ~after[v].trigger /\ ~after[v].release
    /\ \A i \in GraphProcessCalls(op.trace), v \in DOMAIN vs :
          /\ op.trace[i].voices[v].trigger
             => \/ vs[v].trigger
                \/ \E j \in 1..(i - 1) :
                      /\ op.trace[j].step = "apply_event"
                      /\ op.trace[j].event.kind \in {"NoteOn", "NoteOnTarget"}
          /\ op.trace[i].voices[v].release
             => \/ vs[v].release
                \/ \E j \in 1..(i - 1) :
                      /\ op.trace[j].step = "apply_event"
                      /\ op.trace[j].event.kind \in {"NoteOff", "NoteOffTarget"}

\* A trigger flag set before the block or seen by one Graph.process is seen
\* by every later Graph.process of the block.
TriggerLasts(vs, op) ==
    \A v \in DOMAIN vs, j \in GraphProcessCalls(op.trace) :
        (\/ vs[v].trigger
         \/ \E i \in GraphProcessCalls(op.trace) : i < j /\ op.trace[i].voices[v].trigger)
        => op.trace[j].voices[v].trigger

CompiledGraphIsPrepared ==
    (last_compile # NoCompile /\ last_compile.result.ok)
    => LET g == last_compile.result.graph
       IN  /\ Len(g.eval_order) = Cardinality(DOMAIN g.nodes)
           /\ Range(g.eval_order) = DOMAIN g.nodes

\* C34: in the Graph a successful compile returns for a GraphDef with nodes,
\* output_node is the index of the node GraphDef.output_node names when it
\* names one, and the index of the last node added (the one with the largest
\* NodeId) when it is None.
OutputNodeSelected ==
    (/\ last_compile # NoCompile
     /\ last_compile.result.ok
     /\ DOMAIN last_compile.def.nodes # {})
    => LET def == last_compile.def
           g == last_compile.result.graph
       IN  IF def.output_node # None
             THEN /\ def.output_node \in DOMAIN def.nodes
                  /\ g.output_node = DefIndex(def, def.output_node)
             ELSE g.output_node =
                     DefIndex(def, CHOOSE id \in DOMAIN def.nodes :
                                      \A other \in DOMAIN def.nodes : other <= id)

\* The nodes a topological order can place: the least set that holds every
\* node all of whose inputs it holds.
RECURSIVE SortableFrom(_, _)
SortableFrom(ns, S) ==
    LET next == S \cup {i \in DOMAIN ns : Range(ns[i].inputs) \subseteq S}
    IN  IF next = S THEN S ELSE SortableFrom(ns, next)

\* C35: Graph.prepare on a graph with a cycle (a node connected to itself
\* included) returns without aborting, and the evaluation order it leaves
\* holds every node index exactly once, the nodes that cannot be sorted
\* after all the nodes that can.
CyclePrepareIsNonFatal ==
    (last_op.op = "prepare" /\ SortableFrom(nodes, {}) # DOMAIN nodes)
    => /\ ~last_op.panicked
       /\ Len(eval_order) = Cardinality(DOMAIN nodes)
       /\ Range(eval_order) = DOMAIN nodes
       /\ \A p, q \in DOMAIN eval_order :
             (p < q /\ eval_order[q] \in SortableFrom(nodes, {}))
             => eval_order[p] \in SortableFrom(nodes, {})

\* C36: on every generate_events call every playing clip's position
\* advances by end_beat - start_beat, whatever the state of its track
\* (muted, not soloed beside a soloed track, without a target node); a
\* looping clip's position is taken modulo the clip length and so stays in
\* [0, clip.length).
EveryPlayingClipAdvances ==
    [][cp_beat' # cp_beat =>
         \A t \in DOMAIN clip_playback.playing :
            LET pc == clip_playback.playing[t]
                clip == arrangement.clips[pc.clip_id]
                advanced == pc.clip_position + (cp_beat' - cp_beat)
                after == clip_playback'.playing[t].clip_position
            IN IF clip.looping
                 THEN after = advanced % clip.length
                 ELSE after = advanced
    ]_vars

\* C37: voice flag consistency. In every state note_on, note_off,
\* deactivate and clear_triggers reach, each slot has gate only when
\* active, release only when active and not gated, and no flag at all when
\* inactive; and the slot a note_on has just taken, a stolen slot in its
\* release phase included, is active and gated with release cleared.
VoiceFlagsConsistent ==
    /\ \A i \in DOMAIN voices :
          /\ voices[i].gate => voices[i].active
          /\ voices[i].release => (voices[i].active /\ ~voices[i].gate)
          /\ ~voices[i].active =>
                (~voices[i].gate /\ ~voices[i].trigger /\ ~voices[i].release)
    /\ (last_op.op = "note_on" /\ last_op.ret # None)
       => /\ voices[last_op.ret].active
          /\ voices[last_op.ret].gate
          /\ voices[last_op.ret].trigger
          /\ ~voices[last_op.ret].release

\* A note_on has stolen a slot that was in its release phase.
StolenSlotWasInRelease ==
    /\ last_op.op = "note_on"
    /\ max_voices > 0
    /\ last_op.pre_active = max_voices
    /\ last_op.pre_release
    /\ ~voices[last_op.ret].release

\* ---- swap_graph with a graph of any max_voices -----------------------------
\* Engine::swap_graph and EngineHandle::swap_graph are public and take any
\* Graph: the caller compiles it with a max_voices of its choice and, when
\* compile returns Ok, prepares it and hands it over. The allocator keeps
\* the max_voices of Engine::new.
\* process_per_voice_node indexes the node's instance vector by the id of
\* every active voice; an id the vector does not hold makes the call panic,
\* and the engine is not used again.
PerVoiceIndexOutOfBounds ==
    \E idx \in Range(eval_order) :
        /\ nodes[idx].per_voice
        /\ \E v \in Range(VoiceAllocator_active_voices(voices)) :
              v \notin DOMAIN node_state[idx]

SwapGraph(def, mv) ==
    \E result \in {compile(def, Registry, mv)} :
    \E g \in {engine_compile_graph(GraphNow, result)} :
        /\ last_op.op # "panic"
        /\ last_compile' = [def |-> def, result |-> result]
        /\ nodes' = g.nodes
        /\ node_state' = g.node_state
        /\ id_to_index' = g.id_to_index
        /\ eval_order' = g.eval_order
        /\ voices_to_deactivate' = g.vtd
        /\ verdicts' = IF result.ok THEN NoCalls(g.nodes) ELSE verdicts
        /\ installed_def' = IF result.ok THEN def ELSE installed_def
        /\ ever_installed' =
              IF result.ok THEN ever_installed \cup DOMAIN def.nodes
              ELSE ever_installed
        /\ last_op' = [op |-> IF result.ok THEN "swap_graph" ELSE "compile",
                       note |-> mv, ret |-> None,
                       pre_active |-> VoiceAllocator_active_count(voices),
                       oldest |-> OldestActive(voices, note_on_order)]
        /\ UNCHANGED <<max_voices, voices, note_on_order, svars, hvars, pvars, fvars,
                       lvars, bvars, dvars, last_block>>

SwapCommand(cmd) ==
    /\ last_op.op # "panic"
    /\ ProcessCommand(cmd)

SwapBlock(plan, ret) ==
    /\ last_op.op # "panic"
    /\ IF PerVoiceIndexOutOfBounds
       THEN /\ last_op' = [op |-> "panic", note |-> 0, ret |-> None,
                           pre_active |-> VoiceAllocator_active_count(voices),
                           oldest |-> OldestActive(voices, note_on_order)]
            /\ UNCHANGED <<max_voices, voices, note_on_order, graphvars, svars,
                           hvars, cvars>>
       ELSE InstallBlock(plan, ret)

NextSwap ==
    \/ \E def \in InstallDefs, mv \in 1..MaxVoices : SwapGraph(def, mv)
    \/ \E cmd \in InstallCommands : SwapCommand(cmd)
    \/ \E plan \in InstallPlans, ret \in InstallReturns : SwapBlock(plan, ret)

SpecSwap == InitInstall /\ [][NextSwap]_vars

\* C38: per-voice indexing stays in bounds. No Graph.process reached by
\* compile, swap_graph, note-ons and process_plan indexes a per-voice node
\* by a voice id the installed graph has no instance for: every active
\* voice id is below the installed graph's max_voices, also after
\* swap_graph has installed a graph compiled with another max_voices.
PerVoiceIndexingInBounds ==
    /\ last_op.op # "panic"
    /\ last_op.op = "process_plan"
       => \A idx \in DOMAIN verdicts :
             \A v \in DOMAIN verdicts[idx] : v \in DOMAIN node_state[idx]

\* C39: swap_graph replaces the Graph as one whole object and changes
\* nothing else. After a recompile that swapped, the installed graph is the
\* compiled and prepared one in every part, and the voice allocator (active
\* slots, notes, gate, trigger and release flags), the playing flag, the bpm
\* and the sample position are as before; in the process_plan that follows,
\* every voice that was active before the swap is processed by its instance
\* of every per-voice node of the new graph.
SwapGraphReplacesOnlyTheGraph ==
    [][ /\ (last_op'.op = "recompile" /\ last_compile'.result.ok)
           => /\ GraphNow' = Graph_prepare(last_compile'.result.graph)
              /\ voices' = voices
              /\ playing' = playing
              /\ engine_bpm' = engine_bpm
              /\ sample_pos' = sample_pos
        /\ (/\ last_op.op = "recompile"
            /\ last_compile.result.ok
            /\ last_op'.op = "process_plan")
           => \A v \in DOMAIN voices :
                 voices[v].active =>
                    \A idx \in DOMAIN nodes :
                        nodes[idx].per_voice =>
                           /\ v \in DOMAIN verdicts'[idx]
                           /\ ~node_state'[idx][v].fresh
      ]_vars

\* swap_graph has installed a graph with a per-voice node while a voice
\* started before the swap is sounding and the engine is playing.
SwappedUnderActiveVoice ==
    /\ last_op.op = "recompile"
    /\ last_compile.result.ok
    /\ playing
    /\ \E v \in DOMAIN voices :
          /\ voices[v].active
          /\ voices[v].gate
          /\ \E idx \in DOMAIN nodes :
                nodes[idx].per_voice /\ node_state[idx][v].fresh

====
